---- MODULE Spec2Model ----
(***************************************************************************)
(* KyBook3Sync (cal2ky3.py): the destination catalog merge (KyBookDB), the *)
(* content-server client (ContentServer) and the two-pass run (main,       *)
(* iterate_cal_data), as state machines.                                   *)
(*                                                                         *)
(* Text values (names, tags, dates, comments) are sequences of one-        *)
(* character strings, so that LIKE, slicing and the HTML scanner are       *)
(* computed character by character as SQLite and Python compute them.      *)
(* Timestamp columns are not modelled.                                     *)
(***************************************************************************)
EXTENDS Integers, Sequences, FiniteSets, TLC

VARIABLES
    kyb,        \* content of the local KyBook 3 database file (KYB_DB_FILE)
    prefs,      \* the options of the run (remove_html) and SQLite's scan order
    hist,       \* the last KyBookDB call: its name, arguments and the database before it
    up,         \* the upload_file call in progress: position, tries left, requests made
    source,     \* cal_data: the source books handed to main, in order
    run,        \* the run of main / iterate_cal_data: position, pass, cursor, results
    files,      \* the files around the run: KYB_DB_FILE on disk, its backups, the remote copy
    cp,         \* the create_path call in progress, its requests, the server's directories
    img,        \* a cover image handed to _get_thumb and the thumbnail made of it
    fn,         \* a call of a function without side effects: its argument and its result
    jobs,       \* the syncs started from the dialog and the command line, and KYB_DB_FILE
    chan        \* the progress channel of one job: its two threads, the socket, the events

vars == <<kyb, prefs, hist, up, source, run, files, cp, img, fn, jobs, chan>>
notUp == <<kyb, prefs, hist, source, run, files, cp, img, fn, jobs, chan>>    \* what an upload_file call leaves alone
notDb == <<prefs, up, source, run, files, cp, img, fn, jobs, chan>>           \* what a KyBookDB call leaves alone
notCp == <<kyb, prefs, hist, up, source, run, files, img, fn, jobs, chan>>    \* what a create_path call leaves alone
notImg == <<kyb, prefs, hist, up, source, run, files, cp, fn, jobs, chan>>    \* what _get_thumb leaves alone
notFn == <<kyb, prefs, hist, up, source, run, files, cp, img, jobs, chan>>    \* what such a call leaves alone
notJobs == <<kyb, prefs, hist, up, source, run, files, cp, img, fn, chan>>  \* what starting a sync leaves alone
notChan == <<kyb, prefs, hist, up, source, run, files, cp, img, fn, jobs>>  \* what the progress channel leaves alone

(***************************************************************************)
(* Bounds of the model.                                                    *)
(***************************************************************************)
MaxCalls == 4       \* KyBookDB calls in one behaviour of SpecDb
MaxUploads == 2     \* upload_file calls in one behaviour of SpecUpload
MaxCreates == 2     \* create_path calls in one behaviour of SpecCreate
MaxHtml == 5        \* the longest text handed to _remove_html_markup in SpecHtml
MaxLangs == 2       \* the longest languages list of a record in SpecMeta
MaxSyncs == 3       \* syncs started in one behaviour of SpecFlight
MaxBytes == 2       \* the longest book file, in bytes, in SpecHash
MaxHashCalls == 2   \* get_md5 calls in one behaviour of SpecHash
MaxSelected == 2    \* books selected for one sync in SpecFormats
MaxFormats == 2     \* formats of one book, and formats configured, in SpecFormats
MaxDim == 160       \* the largest width and height of a cover image in SpecThumb

(***************************************************************************)
(* Program constants.                                                      *)
(***************************************************************************)
NULL == -1          \* SQL NULL in an integer column (a scalar subquery without a row)
COLLATION_TABLES == <<"authors", "publishers", "subjects", "sequences">>
LOOKUP_TABLES == COLLATION_TABLES \o <<"ebookids">>
ON == " COLLATE swiftCaseInsensitiveCompare"
OFF == ""
THUMB_WIDTH == 74
THUMB_HEIGHT == 105
EBOOK_SCHEMES == [isbn |-> "10", amazon |-> "15", asin |-> "15", oclc |-> "12"]

Range(s) == {s[i] : i \in DOMAIN s}

(***************************************************************************)
(* Python truthiness of a text value, ASCII lower-casing, and SQLite's     *)
(* LIKE (case-insensitive for ASCII letters, % and _ wildcards in the      *)
(* right-hand operand).                                                    *)
(***************************************************************************)
Truthy(text) == text # <<>>

UPPER == <<"A", "B", "C", "D", "E", "F", "G", "H", "I", "J", "K", "L", "M",
           "N", "O", "P", "Q", "R", "S", "T", "U", "V", "W", "X", "Y", "Z">>
LOWER == <<"a", "b", "c", "d", "e", "f", "g", "h", "i", "j", "k", "l", "m",
           "n", "o", "p", "q", "r", "s", "t", "u", "v", "w", "x", "y", "z">>
Index(s, c) == CHOOSE i \in DOMAIN s : s[i] = c
lower(c) == IF c \in Range(UPPER) THEN LOWER[Index(UPPER, c)] ELSE c
LowerText(text) == [i \in DOMAIN text |-> lower(text[i])]

RECURSIVE Like(_, _)
Like(text, pattern) ==
    IF pattern = <<>> THEN text = <<>>
    ELSE IF Head(pattern) = "%"
         THEN Like(text, Tail(pattern)) \/ (text # <<>> /\ Like(Tail(text), pattern))
         ELSE /\ text # <<>>
              /\ (Head(pattern) = "_" \/ lower(Head(text)) = lower(Head(pattern)))
              /\ Like(Tail(text), Tail(pattern))

(***************************************************************************)
(* class Table: the column names that depend on the table's name.          *)
(***************************************************************************)
Table(name) ==
    [name |-> name,
     xid |-> CASE name = "authors" -> "aid"
               [] name = "publishers" -> "pid"
               [] name = "subjects" -> "sid"
               [] name = "sequences" -> "qid"
               [] name = "ebookids" -> "eid",
     maincol |-> CASE name = "authors" -> "namekey"
                   [] name = "publishers" -> "publisher"
                   [] name = "subjects" -> "subject"
                   [] name = "sequences" -> "sequence"
                   [] name = "ebookids" -> "ebookid",
     namecol |-> CASE name = "authors" -> "name"
                   [] name = "publishers" -> "publisher"
                   [] name = "subjects" -> "subject"
                   [] name = "sequences" -> "sequence"
                   [] name = "ebookids" -> "value"]

\* The declared unique clause of a collation table is on its main column
\* (the CREATE TABLE text set_collation writes).
HasUnique(name) == name \in Range(COLLATION_TABLES)

(***************************************************************************)
(* The source catalog in pre-materialized mode: the list of dictionaries   *)
(* jobs.sync_threaded hands to main as cal_data. series is <<>> for None,  *)
(* rating is 0 for None, series_index is in tenths (15 is 1.5).            *)
(***************************************************************************)
T_language == <<"l", "a", "n", "g", "u", "a", "g", "e">>
T_date == <<"1", "9", "6", "5", "-", "0", "8", "-", "0", "1", "T", "0", "0">>

RawBook1 ==
    [id |-> 1, title |-> <<"D", "u", "n", "e">>, pubdate |-> T_date,
     languages |-> << <<"E", "N", "G">> >>,
     comments |-> <<"<", "p", ">", "H", "i", "<", "/", "p", ">">>,
     path |-> <<>>, paths |-> <<"f1">>,
     author_sort_map |-> << <<<<"n">>, <<"k">>>> >>,
     tags |-> << <<"a">>, <<"b">> >>,
     series |-> <<"s">>, series_index |-> 10,
     identifiers |-> << <<"isbn", <<"x">>>> >>,
     publisher |-> <<"p">>, rating |-> 4]

RawBook2 ==
    [id |-> 2, title |-> <<"E", "m", "m", "a">>, pubdate |-> T_date,
     languages |-> << >>,
     comments |-> <<>>,
     path |-> <<>>, paths |-> <<"f2">>,
     author_sort_map |-> << <<<<"m">>, <<"k">>>>, <<<<"o">>, <<"K">>>>, <<<<"q">>, <<>>>> >>,
     tags |-> << <<"A">>, <<>> >>,
     series |-> <<>>, series_index |-> NULL,
     identifiers |-> << <<"uri", <<"x">>>>, <<"asin", <<>>>> >>,
     publisher |-> <<>>, rating |-> 0]

RawBook3 ==
    [id |-> 3, title |-> <<"I", "t">>, pubdate |-> <<"1", "9", "8", "6">>,
     languages |-> << <<"f", "r", "a">>, <<"e", "n", "g">> >>,
     comments |-> <<"a", "<", "b">>,
     path |-> <<>>, paths |-> <<"f3">>,
     author_sort_map |-> << <<<<"N">>, <<"k">>>> >>,
     tags |-> << <<"b">>, <<"_">> >>,
     series |-> <<"S">>, series_index |-> 25,
     identifiers |-> << <<"oclc", <<"y">>>>, <<"isbn", <<"z">>>>, <<"amazon", <<"z">>>> >>,
     publisher |-> <<"P">>, rating |-> 2]

RawCalData == <<RawBook1, RawBook2, RawBook3>>

\* CalibreDB.get_metadata, pre-materialized branch: reshape each dictionary.
get_metadata_datum(cal_datum) ==
    [id |-> cal_datum.id, title |-> cal_datum.title, pubdate |-> cal_datum.pubdate,
     comments |-> cal_datum.comments, path |-> cal_datum.path, paths |-> cal_datum.paths,
     rating |-> cal_datum.rating, series_index |-> cal_datum.series_index,
     authors |-> cal_datum.author_sort_map,
     sequences |-> << cal_datum.series >>,
     subjects |-> cal_datum.tags,
     ebookids |-> cal_datum.identifiers,
     language |-> IF T_language \in Range(cal_datum.languages)
                  THEN LowerText(SubSeq(cal_datum.languages[1], 1,
                                        IF Len(cal_datum.languages[1]) < 2
                                        THEN Len(cal_datum.languages[1]) ELSE 2))
                  ELSE <<>>,
     publishers |-> << cal_datum.publisher >>]

get_metadata(cal_data) == [i \in DOMAIN cal_data |-> get_metadata_datum(cal_data[i])]

\* CalibreDB.get_md5: the MD5 of the bytes of a book file on disk
FileMd5 == [f1 |-> "H1", f2 |-> "H2", f3 |-> "H3"]
get_md5(file) == FileMd5[file]

\* "for cal_datum in cal_db.cal_data: if cal_datum['id'] == cal_bid": the last match.
CalDatum(cal_data, cal_bid) ==
    cal_data[CHOOSE i \in DOMAIN cal_data :
                /\ cal_data[i].id = cal_bid
                /\ \A j \in DOMAIN cal_data : cal_data[j].id = cal_bid => j <= i]

(***************************************************************************)
(* KyBookDB: the statements of update, clean_up and set_collation on the   *)
(* tables of the database file.  A database is a record                    *)
(*   books, metadata, reviews : sets of rows                               *)
(*   lookup[t], link[t]       : the rows of t and of books_t               *)
(*   collation[t]             : the clause after UNIQUE in t's definition  *)
(***************************************************************************)
Max(S) == CHOOSE x \in S : \A y \in S : y <= x

\* rowid given to a row inserted with a NULL INTEGER PRIMARY KEY
NextRowId(rows, xid) == IF rows = {} THEN 1 ELSE Max({r[xid] : r \in rows}) + 1

\* (SELECT bid FROM books WHERE md5 = ?): md5 is declared unique in books
sel_bid(db, md5) ==
    IF \E b \in db.books : b.md5 = md5
    THEN (CHOOSE b \in db.books : b.md5 = md5).bid
    ELSE NULL

\* str[:10]
Published(pubdate) == SubSeq(pubdate, 1, IF Len(pubdate) < 10 THEN Len(pubdate) ELSE 10)

RECURSIVE ScanHtml(_, _, _, _)
ScanHtml(string, tag, quote, out) ==
    IF string = <<>> THEN out
    ELSE LET char == Head(string) IN
         IF char = "<" /\ ~quote THEN ScanHtml(Tail(string), TRUE, quote, out)
         ELSE IF char = ">" /\ ~quote THEN ScanHtml(Tail(string), FALSE, quote, out)
         ELSE IF char \in {"\"", "'"} /\ tag THEN ScanHtml(Tail(string), tag, ~quote, out)
         ELSE IF ~tag THEN ScanHtml(Tail(string), tag, quote, Append(out, char))
         ELSE ScanHtml(Tail(string), tag, quote, out)

\* a scanner that takes every '>' for the end of a tag, quoted or not
RECURSIVE ScanHtml_noquote(_, _, _)
ScanHtml_noquote(string, tag, out) ==
    IF string = <<>> THEN out
    ELSE LET char == Head(string) IN
         IF char = "<" THEN ScanHtml_noquote(Tail(string), TRUE, out)
         ELSE IF char = ">" THEN ScanHtml_noquote(Tail(string), FALSE, out)
         ELSE IF ~tag THEN ScanHtml_noquote(Tail(string), tag, Append(out, char))
         ELSE ScanHtml_noquote(Tail(string), tag, out)

remove_html_markup_noquote(string) == ScanHtml_noquote(string, FALSE, <<>>)

\* "if not string: return out" for None and for '', both the empty text here
remove_html_markup(string) ==
    IF ~Truthy(string) THEN <<>> ELSE ScanHtml(string, FALSE, FALSE, <<>>)

\* an update that would add a books row for a hash it does not find
update_metadata_ins(db, row, md5, remove_html) ==
    IF \E b \in db.books : b.md5 = md5 THEN db
    ELSE [db EXCEPT !.books = @ \cup {[bid |-> 1 + Cardinality(db.books), md5 |-> md5]}]

\* UPDATE metadata SET ... WHERE bid = (SELECT bid FROM books WHERE md5 = ?)
update_metadata(db, row, md5, remove_html) ==
    LET bid == sel_bid(db, md5)
        annotation == IF remove_html THEN remove_html_markup(row.comments) ELSE row.comments
    IN [db EXCEPT !.metadata =
            {IF bid # NULL /\ m.bid = bid
             THEN [m EXCEPT !.title = row.title,
                            !.published = Published(row.pubdate),
                            !.language = row.language,
                            !.annotation = annotation]
             ELSE m : m \in db.metadata}]

\* DELETE from books_{0} WHERE bid = (SELECT bid FROM books WHERE md5 = ?), every lookup table
del_book_from_link_tables(db, md5) ==
    LET bid == sel_bid(db, md5)
    IN [db EXCEPT !.link = [t \in DOMAIN db.link |->
                               {l \in db.link[t] : ~(bid # NULL /\ l.bid = bid)}]]

\* an update that would leave the reviews table to the insert alone
del_book_from_reviews_none(db, md5) == db

\* DELETE from reviews WHERE bid = (SELECT bid FROM books WHERE md5 = ?)
del_book_from_reviews(db, md5) ==
    LET bid == sel_bid(db, md5)
    IN [db EXCEPT !.reviews = {r \in db.reviews : ~(bid # NULL /\ r.bid = bid)}]

\* INSERT OR REPLACE INTO reviews (bid, rating, timestamp)
\*   VALUES((SELECT bid FROM books WHERE md5 = ?), ?, ?): no row when the rating is falsy
ins_book_to_reviews(db, cal_data, cal_bid, md5) ==
    LET rating == CalDatum(cal_data, cal_bid).rating
        bid == sel_bid(db, md5)
    IN IF rating = 0 THEN db
       ELSE [db EXCEPT !.reviews =
                {r \in db.reviews : bid = NULL \/ r.bid # bid}
                \cup {[bid |-> bid, rating |-> rating]}]

\* The row INSERT OR REPLACE INTO {0} ({1}, {2}, timestamp) writes: sql_fil_data
\* is (extra, name) for authors and ebookids, (name,) for the other tables.
NewRow(tbl, id, name, extra) ==
    CASE tbl = "authors" -> [aid |-> id, namekey |-> extra, name |-> name]
      [] tbl = "publishers" -> [pid |-> id, publisher |-> name]
      [] tbl = "subjects" -> [sid |-> id, subject |-> name]
      [] tbl = "sequences" -> [qid |-> id, sequence |-> name]
      [] tbl = "ebookids" -> [eid |-> id, scheme |-> extra, value |-> name]

\* The row INSERT OR REPLACE INTO books_{0} (bid, {1}) writes; books_sequences
\* also gets seqnumber.
LinkRow(tbl, bid, id, seqnumber) ==
    CASE tbl = "authors" -> [bid |-> bid, aid |-> id]
      [] tbl = "publishers" -> [bid |-> bid, pid |-> id]
      [] tbl = "subjects" -> [bid |-> bid, sid |-> id]
      [] tbl = "sequences" -> [bid |-> bid, qid |-> id, seqnumber |-> seqnumber]
      [] tbl = "ebookids" -> [bid |-> bid, eid |-> id]

\* The order in which SQLite visits the rows of a lookup table for
\*   SELECT {1} FROM {0} WHERE {3} LIKE ?
\* is its planner's choice: the table in rowid order or, where the name column
\* is the unique main column, its index in the order of the values.
\* the byte of a character: the binary order of an index on a text column
Ascii(c) == IF c \in Range(UPPER) THEN 64 + Index(UPPER, c)
            ELSE IF c \in Range(LOWER) THEN 96 + Index(LOWER, c)
            ELSE IF c = "_" THEN 95
            ELSE 37

RECURSIVE TextLess(_, _)
TextLess(x, y) ==
    IF y = <<>> THEN FALSE
    ELSE IF x = <<>> THEN TRUE
    ELSE IF Head(x) = Head(y) THEN TextLess(Tail(x), Tail(y))
    ELSE Ascii(Head(x)) < Ascii(Head(y))

Before(tbl, scan, r1, r2) ==
    LET t == Table(tbl)
    IN IF scan = "index" /\ HasUnique(tbl) /\ t.namecol = t.maincol
       THEN TextLess(r1[t.namecol], r2[t.namecol])
       ELSE r1[t.xid] < r2[t.xid]

\* (SELECT {1} FROM {0} WHERE {3} LIKE ?): the id of the first row visited
\* whose name column is LIKE the value, or NULL
sel_like(rows, tbl, name, scan) ==
    LET t == Table(tbl)
        found == {r \in rows : Like(r[t.namecol], name)}
    IN IF found = {} THEN NULL
       ELSE (CHOOSE r \in found : \A o \in found \ {r} : Before(tbl, scan, r, o))[t.xid]

\* fill_lookups_sql: INSERT OR REPLACE INTO {0} ({1}, {2}, timestamp)
\*   VALUES((SELECT {1} FROM {0} WHERE {3} LIKE ?), {4})
\* With a NULL key the row gets the next rowid.  REPLACE deletes every row in
\* conflict with the new one: the row with the same id and, in a table with a
\* unique main column, the row with the same main value (compared byte for
\* byte: collation is off while update runs).
fill_lookups(rows, tbl, name, extra, scan) ==
    LET t == Table(tbl)
        key == sel_like(rows, tbl, name, scan)
        id == IF key = NULL THEN NextRowId(rows, t.xid) ELSE key
        new == NewRow(tbl, id, name, extra)
    IN {r \in rows : /\ r[t.xid] # id
                     /\ ~(HasUnique(tbl) /\ r[t.maincol] = new[t.maincol])}
       \cup {new}

\* ins_books_links_sql: INSERT OR REPLACE INTO books_{0} (bid, {1})
\*   SELECT books.bid, {0}.{2} FROM books, {0} WHERE books.md5 = ? AND {0}.{3} = ?
ins_books_links(db, tbl, rows, md5, name, seqnumber) ==
    LET t == Table(tbl)
        new == {LinkRow(tbl, b.bid, r[t.xid], seqnumber) :
                   b \in {x \in db.books : x.md5 = md5},
                   r \in {x \in rows : x[t.namecol] = name}}
    IN {l \in db.link[tbl] : ~\E n \in new : n.bid = l.bid /\ n[t.xid] = l[t.xid]}
       \cup new

\* name and extra of one lookup_row, as the branches on tbl.name take them
RowName(tbl, lookup_row) ==
    IF tbl \in {"authors"} THEN lookup_row[1]
    ELSE IF tbl = "ebookids" THEN lookup_row[2]
    ELSE lookup_row

RowExtra(tbl, lookup_row) ==
    IF tbl = "authors" THEN lookup_row[2]
    ELSE IF tbl = "ebookids"
         THEN (IF lookup_row[1] \in DOMAIN EBOOK_SCHEMES
               THEN EBOOK_SCHEMES[lookup_row[1]] ELSE "0")
    ELSE "extra"

\* "if not name or not extra: continue"
Skipped(tbl, lookup_row) ==
    \/ ~Truthy(RowName(tbl, lookup_row))
    \/ (IF tbl = "authors" THEN ~Truthy(RowExtra(tbl, lookup_row))
        ELSE RowExtra(tbl, lookup_row) = "")

\* seqnumber = int(seqnumber) if seqnumber else seqnumber (series_index in tenths)
SeqNumber(series_index) ==
    IF series_index = NULL THEN NULL ELSE series_index \div 10

\* one pass of "for lookup_row in lookup_rows": the fill statement, then the link statement
ins_lookup_row(db, tbl, lookup_row, md5, seqnumber, scan) ==
    IF Skipped(tbl, lookup_row) THEN db
    ELSE LET rows == fill_lookups(db.lookup[tbl], tbl, RowName(tbl, lookup_row),
                                  RowExtra(tbl, lookup_row), scan)
         IN [db EXCEPT !.lookup[tbl] = rows,
                       !.link[tbl] = ins_books_links(db, tbl, rows, md5,
                                                     RowName(tbl, lookup_row), seqnumber)]

RECURSIVE ins_lookup_rows(_, _, _, _, _, _)
ins_lookup_rows(db, tbl, lookup_rows, md5, seqnumber, scan) ==
    IF lookup_rows = <<>> THEN db
    ELSE ins_lookup_rows(ins_lookup_row(db, tbl, Head(lookup_rows), md5, seqnumber, scan),
                         tbl, Tail(lookup_rows), md5, seqnumber, scan)

RECURSIVE ins_tables(_, _, _, _, _)
ins_tables(db, tables, cal_datum, md5, scan) ==
    IF tables = <<>> THEN db
    ELSE ins_tables(ins_lookup_rows(db, Head(tables), cal_datum[Head(tables)], md5,
                                    SeqNumber(cal_datum.series_index), scan),
                    Tail(tables), cal_datum, md5, scan)

\* KyBookDB._ins_book_to_link_tables: every lookup table in the order of
\* LOOKUP_TABLES, every lookup_row of the book in its order
ins_book_to_link_tables(db, cal_data, cal_bid, md5, scan) ==
    ins_tables(db, LOOKUP_TABLES, CalDatum(cal_data, cal_bid), md5, scan)

\* KyBookDB.update
update(db, cal_data, row, md5, remove_html, scan) ==
    ins_book_to_reviews(
        ins_book_to_link_tables(
            del_book_from_reviews(
                del_book_from_link_tables(
                    update_metadata(db, row, md5, remove_html), md5), md5),
            cal_data, row.id, md5, scan),
        cal_data, row.id, md5)

\* a clean-up that would empty the lookup table
del_from_lookups_all(db, tbl) == {}

\* a clean-up that would delete only the unused row with the lowest id
del_from_lookups_first(db, tbl) ==
    LET xid == IF tbl = "authors" THEN "aid" ELSE IF tbl = "publishers" THEN "pid"
               ELSE IF tbl = "subjects" THEN "sid" ELSE IF tbl = "sequences" THEN "qid"
               ELSE "eid"
        used == {l[xid] : l \in db.link[tbl]}
        unused == {r \in db.lookup[tbl] : r[xid] \notin used}
    IN {r \in db.lookup[tbl] : \E o \in unused : o[xid] < r[xid] \/ r[xid] \in used}

\* del_from_lookups_sql: DELETE FROM {0} WHERE {1} NOT IN (SELECT {1} FROM books_{0})
\* (NOT IN is not true of any row when the subquery gives a NULL)
del_from_lookups(db, tbl) ==
    LET t == Table(tbl)
        used == {l[t.xid] : l \in db.link[tbl]}
    IN IF NULL \in used THEN db.lookup[tbl]
       ELSE {r \in db.lookup[tbl] : r[t.xid] \in used}

\* KyBookDB.clean_up
clean_up(db) ==
    [db EXCEPT !.lookup = [tbl \in DOMAIN db.lookup |->
                              IF tbl \in Range(LOOKUP_TABLES)
                              THEN del_from_lookups(db, tbl) ELSE db.lookup[tbl]]]

\* set_collation leaving the schema as it found it
set_collation_kept(db, on_or_off) == db

\* KyBookDB.set_collation: the clause after UNIQUE of every collation table
set_collation(db, on_or_off) ==
    [db EXCEPT !.collation = [tbl \in DOMAIN db.collation |->
                                 IF tbl \in Range(COLLATION_TABLES)
                                 THEN on_or_off ELSE db.collation[tbl]]]


(***************************************************************************)
(* ContentServer.upload_file and _post_multipart.  events is the list of   *)
(* what the call did, in order: "HEAD", "DELETE" and "POST" are requests   *)
(* sent, "raise" is the transport raising on the last request, "resp" a    *)
(* response received, "sleep" is time.sleep(1).                            *)
(***************************************************************************)
DefaultTries == 5       \* def _post_multipart(self, url, fields, files, tries=5)
None == "None"

UpIdle == [pc |-> "idle", del_existing |-> FALSE, tries |-> 0, events |-> <<>>,
           resp |-> None, log |-> None, ret |-> None, n |-> 0,
           caller |-> None, probe |-> None]

\* a retry that would pass tries on unchanged
NextTries_same(tries) == tries

\* the tries argument of the recursive call
NextTries(tries) == tries - 1

\* "if tries == 0: return None" at the head of _post_multipart
AfterFailedPost(tries) == IF NextTries(tries) = 0 THEN "log" ELSE "post"

\* upload_file is entered: the local file is read
UploadCall(del_existing) ==
    /\ up.pc \in {"idle", "done", "raised"}
    /\ up.n < MaxUploads
    /\ up' = [pc |-> IF del_existing THEN "probe" ELSE "post",
              del_existing |-> del_existing, tries |-> DefaultTries, events |-> <<>>,
              resp |-> None, log |-> None, ret |-> None, n |-> up.n + 1,
              caller |-> "upload_file", probe |-> None]
    /\ UNCHANGED notUp

\* ContentServer.upload_db_file: upload_file(db_file, '/$App/', remote_file=None,
\* del_existing=True)
upload_db_file == [remote_dir |-> "/$App/", del_existing |-> TRUE]

UploadDbFile ==
    /\ up.pc \in {"idle", "done", "raised"}
    /\ up.n < MaxUploads
    /\ up' = [pc |-> IF upload_db_file.del_existing THEN "probe" ELSE "post",
              del_existing |-> upload_db_file.del_existing, tries |-> DefaultTries,
              events |-> <<>>, resp |-> None, log |-> None, ret |-> None, n |-> up.n + 1,
              caller |-> "upload_db_file", probe |-> None]
    /\ UNCHANGED notUp

\* open(local_file, 'rb') raises: the file is missing or unreadable
UploadOpenRaises ==
    /\ up.pc \in {"idle", "done", "raised"}
    /\ up.n < MaxUploads
    /\ up' = [UpIdle EXCEPT !.pc = "raised", !.n = up.n + 1]
    /\ UNCHANGED notUp

\* a probe whose result would be ignored
AfterProbe_post(exists) == "post"

\* "if self.file_exists(path_to_delete): ... self.delete_path(path_to_delete)"
AfterProbe(exists) == IF exists THEN "delete" ELSE "post"

\* file_exists(path_to_delete): HEAD /download, True on status 200; _http_conn
\* has no handler, so a transport failure raises out of upload_file
UploadProbe(status) ==
    /\ up.pc = "probe"
    /\ up' = [up EXCEPT !.events = @ \o (IF status = "raise" THEN <<"HEAD", "raise">>
                                         ELSE <<"HEAD", "resp">>),
                        !.probe = status,
                        !.pc = IF status = "raise" THEN "raised"
                               ELSE AfterProbe(status = "200")]
    /\ UNCHANGED notUp

\* delete_path(path_to_delete): POST /delete; its result is only logged
UploadDelete(status) ==
    /\ up.pc = "delete"
    /\ up' = [up EXCEPT !.events = @ \o (IF status = "raise" THEN <<"DELETE", "raise">>
                                         ELSE <<"DELETE", "resp">>),
                        !.pc = IF status = "raise" THEN "raised" ELSE "post"]
    /\ UNCHANGED notUp

\* one entry of _post_multipart with tries > 0: the request gets a response
UploadPostResponds(status) ==
    /\ up.pc = "post"
    /\ up.tries > 0
    /\ up' = [up EXCEPT !.events = @ \o <<"POST", "resp">>, !.resp = status, !.pc = "log"]
    /\ UNCHANGED notUp

\* one entry of _post_multipart with tries > 0: the transport raises
UploadPostRaises ==
    /\ up.pc = "post"
    /\ up.tries > 0
    /\ up' = [up EXCEPT !.events = @ \o <<"POST", "raise">>, !.pc = "sleep"]
    /\ UNCHANGED notUp

\* the except branch: time.sleep(1), then the recursive call with tries - 1
UploadSleep ==
    /\ up.pc = "sleep"
    /\ up' = [up EXCEPT !.events = Append(@, "sleep"),
                        !.tries = NextTries(@),
                        !.pc = AfterFailedPost(up.tries)]
    /\ UNCHANGED notUp

\* "if resp: LOG.info(resp.reason) else: LOG.info('Failed!')"; upload_file
\* has no return statement
UploadReturn ==
    /\ up.pc = "log"
    /\ up' = [up EXCEPT !.log = IF up.resp # None THEN "reason" ELSE "Failed!",
                        !.ret = None,
                        !.pc = "done"]
    /\ UNCHANGED notUp

\* what a request can end with: a response with its status, or the transport raising
Answers == {"200", "404", "raise"}

Count(events, e) == Cardinality({i \in DOMAIN events : events[i] = e})

(***************************************************************************)
(* Destination snapshots: the database file as the KyBook 3 application    *)
(* leaves it.  The application holds two books, with the content hashes H1 *)
(* and H2; no book has the hash H3.  Collation is on in every snapshot.    *)
(***************************************************************************)
Hashes == {"H1", "H2", "H3"}

SnapBooks == {[bid |-> 1, md5 |-> "H1"], [bid |-> 2, md5 |-> "H2"]}

SnapMetadata ==
    {[bid |-> b, title |-> <<"?">>, published |-> <<>>, language |-> <<>>,
      annotation |-> <<>>] : b \in {1, 2}}

SnapCollation == [tbl \in Range(COLLATION_TABLES) |-> ON]

SnapEmpty ==
    [books |-> SnapBooks, metadata |-> SnapMetadata, reviews |-> {},
     lookup |-> [tbl \in Range(LOOKUP_TABLES) |-> {}],
     link |-> [tbl \in Range(LOOKUP_TABLES) |-> {}],
     collation |-> SnapCollation]

SnapUsed ==
    [books |-> SnapBooks, metadata |-> SnapMetadata,
     reviews |-> {[bid |-> 1, rating |-> 5], [bid |-> 2, rating |-> 1]},
     lookup |-> [authors |-> {[aid |-> 1, namekey |-> <<"k">>, name |-> <<"n">>],
                              [aid |-> 2, namekey |-> <<"z">>, name |-> <<"n">>]},
                 publishers |-> {[pid |-> 1, publisher |-> <<"c">>]},
                 subjects |-> {[sid |-> 1, subject |-> <<"A">>],
                               [sid |-> 2, subject |-> <<"c">>],
                               [sid |-> 3, subject |-> <<"d">>]},
                 sequences |-> {[qid |-> 2, sequence |-> <<"t">>]},
                 ebookids |-> {[eid |-> 1, scheme |-> "10", value |-> <<"x">>]}],
     link |-> [authors |-> {[bid |-> 1, aid |-> 1], [bid |-> 2, aid |-> 2]},
               publishers |-> {},
               subjects |-> {[bid |-> 1, sid |-> 1], [bid |-> 2, sid |-> 1],
                             [bid |-> 1, sid |-> 2]},
               sequences |-> {[bid |-> 2, qid |-> 2, seqnumber |-> 3]},
               ebookids |-> {[bid |-> 2, eid |-> 1]}],
     collation |-> SnapCollation]

Snapshots == {SnapEmpty, SnapUsed}

CollationIs(db, on_or_off) == \A tbl \in DOMAIN db.collation : db.collation[tbl] = on_or_off

RunIdle == [pc |-> "idle", pass |-> "", book |-> 1, file |-> 1, n |-> 0, end1 |-> SnapEmpty,
            conn |-> FALSE, download_dir |-> FALSE, ret |-> None, backups0 |-> 0,
            snap |-> {}, md5s |-> <<>>, log |-> <<>>, c_s |-> None, sent |-> <<>>,
            checked |-> <<>>, err |-> None, pulled |-> <<>>]

\* KYB_DB_FILE on disk ("missing", "empty": zero bytes, or "file"; kyb is its
\* content while it is "file"), the backup copies made, the remote database file
NoFiles == [local |-> "file", backups |-> 0, remote |-> "file"]

\* no create_path call made; the server has no directory
CpIdle == [pc |-> "idle", path |-> <<>>, parts |-> <<>>, i |-> 1, cur |-> <<>>,
           requests |-> <<>>, dirs |-> {}, dirs0 |-> {}, n |-> 0]

\* no sync started
NoJobs == [runs |-> <<>>, file |-> 0, mixed |-> FALSE]

\* no job started
NoChannel == [worker |-> "idle", fg |-> "idle"]

\* no such call made
NoFn == [pc |-> "idle"]

\* no cover image looked at
NoImage == [pc |-> "idle", exists |-> FALSE, width |-> 0, height |-> 0,
            thumb |-> <<0, 0>>, empty |-> TRUE]

NoCall == [op |-> "none", id |-> 0, md5 |-> "", pre |-> SnapEmpty, n |-> 0]

(***************************************************************************)
(* SpecDb: the public methods of one KyBookDB object, called in any order  *)
(* on a downloaded snapshot.  update and clean_up run while collation is   *)
(* off, as iterate_cal_data calls them.                                    *)
(***************************************************************************)
InitDb ==
    /\ kyb \in Snapshots
    /\ prefs \in [remove_html : BOOLEAN, scan : {"rowid", "index"}]
    /\ hist = NoCall
    /\ up = UpIdle
    /\ source = RawCalData
    /\ run = RunIdle
    /\ files = NoFiles
    /\ cp = CpIdle
    /\ img = NoImage
    /\ fn = NoFn
    /\ jobs = NoJobs
    /\ chan = NoChannel

DbSetCollation(on_or_off) ==
    /\ hist.n < MaxCalls
    /\ kyb' = set_collation(kyb, on_or_off)
    /\ hist' = [op |-> "set_collation", id |-> 0, md5 |-> "", pre |-> kyb, n |-> hist.n + 1]
    /\ UNCHANGED notDb

DbUpdate(i, md5) ==
    /\ hist.n < MaxCalls
    /\ CollationIs(kyb, OFF)
    /\ kyb' = update(kyb, get_metadata(source), get_metadata(source)[i], md5,
                     prefs.remove_html, prefs.scan)
    /\ hist' = [op |-> "update", id |-> source[i].id, md5 |-> md5, pre |-> kyb,
                n |-> hist.n + 1]
    /\ UNCHANGED notDb

DbCleanUp ==
    /\ hist.n < MaxCalls
    /\ CollationIs(kyb, OFF)
    /\ kyb' = clean_up(kyb)
    /\ hist' = [op |-> "clean_up", id |-> 0, md5 |-> "", pre |-> kyb, n |-> hist.n + 1]
    /\ UNCHANGED notDb

NextDb ==
    \/ \E on_or_off \in {ON, OFF} : DbSetCollation(on_or_off)
    \/ \E i \in DOMAIN source, md5 \in Hashes : DbUpdate(i, md5)
    \/ DbCleanUp

SpecDb == InitDb /\ [][NextDb]_vars

(***************************************************************************)
(* Claims about KyBookDB, checked under SpecDb.                            *)
(***************************************************************************)
LastRow == CalDatum(get_metadata(source), hist.id)
LastBid == sel_bid(hist.pre, hist.md5)

\* C1 (as claimed): an update for a content hash that matches no row of books
\* leaves every destination table exactly as it was before the call.
C1_UpdateUnmatchedNoOp ==
    (hist.op = "update" /\ LastBid = NULL) => kyb = hist.pre

\* the values of one kind linked to a book through books_<table>
LinkedValues(db, tbl, bid) ==
    LET t == Table(tbl)
    IN {r[t.namecol] : r \in {x \in db.lookup[tbl] :
                                 \E l \in db.link[tbl] : l.bid = bid /\ l[t.xid] = x[t.xid]}}

\* the values of one kind a record asks for: non-empty name, non-empty companion
RecordValues(row, tbl) ==
    {RowName(tbl, row[tbl][i]) : i \in {j \in DOMAIN row[tbl] : ~Skipped(tbl, row[tbl][j])}}

\* C5 (as claimed): once collation is switched back on, no lookup table holds
\* two rows whose unique column is equal without regard to letter case.
UniqueValue(tbl, r) ==
    IF tbl = "ebookids" THEN <<r.scheme, LowerText(r.value)>>
    ELSE LowerText(r[Table(tbl).maincol])

NoDuplicates(db) ==
    \A tbl \in Range(LOOKUP_TABLES) :
        \A r1, r2 \in db.lookup[tbl] :
            UniqueValue(tbl, r1) = UniqueValue(tbl, r2) => r1 = r2

C5_NoDuplicateLookupValues ==
    (hist.op = "set_collation" /\ CollationIs(kyb, ON)) => NoDuplicates(kyb)

\* C6: a second clean_up right after a clean_up deletes nothing: the database
\* clean_up leaves is a fixed point of clean_up.
C6_CleanUpFixedPoint ==
    hist.op = "clean_up" => clean_up(kyb) = kyb

\* C6 witness: a clean_up that did delete rows
C6_Witness ==
    /\ hist.op = "clean_up"
    /\ \E tbl \in Range(LOOKUP_TABLES) : kyb.lookup[tbl] # hist.pre.lookup[tbl]

\* C8 (as claimed): after update for a matched book, the values linked to the
\* book are, for every lookup kind, exactly the record's values of that kind.
C8_LinksAreRecordValues ==
    (hist.op = "update" /\ LastBid # NULL) =>
        \A tbl \in Range(LOOKUP_TABLES) :
            LinkedValues(kyb, tbl, LastBid) = RecordValues(LastRow, tbl)

\* the scheme codes as claimed
SchemeCode(scheme) ==
    CASE scheme = "isbn" -> "10"
      [] scheme \in {"amazon", "asin"} -> "15"
      [] scheme = "oclc" -> "12"
      [] OTHER -> "0"

\* C22 (as claimed): after update for a matched book, every identifier of the
\* record with a non-empty value has an ebookids row with that value and the
\* code of its scheme ('10' isbn, '15' amazon and asin, '12' oclc, '0' any
\* other scheme), linked to the book.
C22_SchemeMapping ==
    (hist.op = "update" /\ LastBid # NULL) =>
        \A i \in DOMAIN LastRow.ebookids :
            Truthy(LastRow.ebookids[i][2]) =>
                \E r \in kyb.lookup["ebookids"] :
                    /\ r.value = LastRow.ebookids[i][2]
                    /\ r.scheme = SchemeCode(LastRow.ebookids[i][1])
                    /\ \E l \in kyb.link["ebookids"] : l.bid = LastBid /\ l.eid = r.eid

\* the series of the record is in the sequences lookup exactly once and the
\* book's books_sequences row to it carries the position (in tenths)
SeriesLinked(db, bid, series, position) ==
    /\ Cardinality({r \in db.lookup["sequences"] : r.sequence = series}) = 1
    /\ \A r \in db.lookup["sequences"] :
        r.sequence = series =>
            \E l \in db.link["sequences"] :
                /\ l.bid = bid
                /\ l.qid = r.qid
                /\ l.seqnumber # NULL
                /\ 10 * l.seqnumber = position

\* C23 (as claimed): after update for a matched book whose record has series
\* s and series position n, sequences holds s exactly once and the row of
\* books_sequences joining the book to s has seqnumber n; a record without a
\* series leaves the book without a books_sequences row.
C23_SeriesSeqNumber ==
    (hist.op = "update" /\ LastBid # NULL) =>
        IF Truthy(LastRow.sequences[1])
        THEN SeriesLinked(kyb, LastBid, LastRow.sequences[1], LastRow.series_index)
        ELSE ~\E l \in kyb.link["sequences"] : l.bid = LastBid

\* supporting C23: the same for the records whose series position is a whole number
C23_WholePositions ==
    (hist.op = "update" /\ LastBid # NULL
        /\ (LastRow.series_index = NULL \/ LastRow.series_index % 10 = 0)) =>
        IF Truthy(LastRow.sequences[1])
        THEN SeriesLinked(kyb, LastBid, LastRow.sequences[1], LastRow.series_index)
        ELSE ~\E l \in kyb.link["sequences"] : l.bid = LastBid

\* C24: after update for a matched book b, the reviews rows of b are the one
\* row with the record's rating when the record has a rating and none when it
\* has not, whatever rows b had before, and the reviews rows of the other
\* books are as before.
C24_ReviewReplaced ==
    (hist.op = "update" /\ LastBid # NULL) =>
        /\ {r \in kyb.reviews : r.bid = LastBid} =
                (IF LastRow.rating # 0
                 THEN {[bid |-> LastBid, rating |-> LastRow.rating]} ELSE {})
        /\ {r \in kyb.reviews : r.bid # LastBid} = {r \in hist.pre.reviews : r.bid # LastBid}

\* a book that had a review with another rating, and a book with a review that
\* had to stay, after an update with a rating
C24_Witness ==
    /\ hist.op = "update"
    /\ LastBid # NULL
    /\ LastRow.rating # 0
    /\ \E r \in hist.pre.reviews : r.bid = LastBid /\ r.rating # LastRow.rating
    /\ \E r \in kyb.reviews : r.bid # LastBid

\* an update without a rating for a book that had a review
C24_WitnessNoRating ==
    /\ hist.op = "update"
    /\ LastBid # NULL
    /\ LastRow.rating = 0
    /\ \E r \in hist.pre.reviews : r.bid = LastBid

(***************************************************************************)
(* SpecUpload: upload_file calls against a content server whose answers    *)
(* are not determined.                                                     *)
(***************************************************************************)
InitUpload ==
    /\ kyb = SnapEmpty
    /\ prefs = [remove_html |-> FALSE, scan |-> "rowid"]
    /\ hist = NoCall
    /\ up = UpIdle
    /\ source = RawCalData
    /\ run = RunIdle
    /\ files = NoFiles
    /\ cp = CpIdle
    /\ img = NoImage
    /\ fn = NoFn
    /\ jobs = NoJobs
    /\ chan = NoChannel

NextUpload ==
    \/ \E del_existing \in BOOLEAN : UploadCall(del_existing)
    \/ UploadDbFile
    \/ UploadOpenRaises
    \/ \E status \in Answers : UploadProbe(status)
    \/ \E status \in Answers : UploadDelete(status)
    \/ \E status \in Answers \ {"raise"} : UploadPostResponds(status)
    \/ UploadPostRaises
    \/ UploadSleep
    \/ UploadReturn

SpecUpload == InitUpload /\ [][NextUpload]_vars

Posts == Count(up.events, "POST")
\* the POST attempts on which the transport raised
FailedPosts ==
    Cardinality({i \in DOMAIN up.events :
                    /\ up.events[i] = "raise"
                    /\ up.events[i - 1] = "POST"})

\* C2: an upload_file call never makes more than 5 POST attempts; every POST
\* after the first comes right after the 1-second sleep that follows a failed
\* POST; and a call that ends with a response after k failed attempts has made
\* exactly k + 1 attempts, k <= 4, and logs the response, not 'Failed!'.
C2_BoundedRetry ==
    /\ Posts <= 5
    /\ \A i \in DOMAIN up.events :
          (up.events[i] = "POST" /\ \E j \in 1..(i - 1) : up.events[j] = "POST")
              => (i > 3 /\ up.events[i - 1] = "sleep" /\ up.events[i - 2] = "raise"
                        /\ up.events[i - 3] = "POST")
    /\ (up.pc = "done" /\ up.resp # None)
          => (Posts = FailedPosts + 1 /\ FailedPosts <= 4
              /\ Count(up.events, "sleep") = FailedPosts /\ up.log = "reason")

\* C2 witness: four failed attempts, then a response on the fifth
C2_Witness ==
    up.pc = "done" /\ up.resp # None /\ FailedPosts = 4 /\ Posts = 5

\* C3 (as claimed): when all 5 POST attempts raise, no exception escapes and
\* upload_file returns a failure result its caller can tell from the result
\* of a successful upload (which is None).
C3_ExhaustionReported ==
    (Posts = 5 /\ FailedPosts = 5 /\ up.pc \notin {"post", "sleep", "log"})
        => (up.pc = "done" /\ up.ret # None)

(***************************************************************************)
(* SpecSync: the metadata pass of iterate_cal_data on the local database   *)
(* (update for every file of every source book, then clean_up), run twice  *)
(* in a row on an unchanged source.                                        *)
(***************************************************************************)
RECURSIVE Orders(_)
Orders(S) == IF S = {} THEN {<<>>}
             ELSE UNION {{<<x>> \o o : o \in Orders(S \ {x})} : x \in S}

\* the source catalogs a run is given: some of the books, in some order
Catalogs == UNION {Orders(S) : S \in (SUBSET Range(RawCalData)) \ {{}}}

\* the cursor of "for cal_datum in cal_data: for file_row in get_books_files(cal_bid)"
NextFile(cal_data, r) ==
    IF r.file < Len(cal_data[r.book].paths)
    THEN [r EXCEPT !.file = r.file + 1]
    ELSE [r EXCEPT !.book = r.book + 1, !.file = 1]

InitSync ==
    /\ kyb \in {set_collation(snap, OFF) : snap \in Snapshots}
    /\ prefs \in [remove_html : BOOLEAN, scan : {"rowid", "index"}]
    /\ hist = NoCall
    /\ up = UpIdle
    /\ source \in Catalogs
    /\ run = [RunIdle EXCEPT !.pc = "books", !.pass = "Metadata sync", !.n = 1]
    /\ files = NoFiles
    /\ cp = CpIdle
    /\ img = NoImage
    /\ fn = NoFn
    /\ jobs = NoJobs
    /\ chan = NoChannel

\* one turn of the inner loop of the metadata pass: kyb_db.update(cal_db, cal_datum, md5)
SyncUpdate ==
    /\ run.pc = "books"
    /\ run.book <= Len(source)
    /\ LET cal_data == get_metadata(source)
           cal_datum == cal_data[run.book]
           md5 == get_md5(cal_datum.paths[run.file])
       IN kyb' = update(kyb, cal_data, cal_datum, md5, prefs.remove_html, prefs.scan)
    /\ run' = NextFile(source, run)
    /\ UNCHANGED <<prefs, hist, up, source, files, cp, img, fn, jobs, chan>>

\* "if iteration == 'Metadata sync': kyb_db.clean_up()"; then the next sync starts
SyncCleanUp ==
    /\ run.pc = "books"
    /\ run.book > Len(source)
    /\ kyb' = clean_up(kyb)
    /\ run' = IF run.n = 1
              THEN [run EXCEPT !.n = 2, !.book = 1, !.file = 1, !.end1 = kyb']
              ELSE [run EXCEPT !.pc = "done"]
    /\ UNCHANGED <<prefs, hist, up, source, files, cp, img, fn, jobs, chan>>

NextSync == SyncUpdate \/ SyncCleanUp

SpecSync == InitSync /\ [][NextSync]_vars

\* C4 (as claimed): the database after the second sync equals the database
\* after the first, in every table (rows, row ids and values).
C4_SyncIdempotent ==
    run.pc = "done" => kyb = run.end1

(***************************************************************************)
(* SpecRun: one run of main.  run.conn tells whether main was given        *)
(* cal_data (the plugin's job; conn is then a Client) or not (the command  *)
(* line; conn is None and the records are sqlite3.Row objects).  run.log   *)
(* lists, in order, the operations the run has issued.                     *)
(***************************************************************************)
\* ContentServer.download_file: the local file is written only on status 200
download_file(local, status, body) ==
    IF status = "200" THEN (IF body = "empty" THEN "empty" ELSE "file") ELSE local

\* a test that would only ask whether the file exists
HasSnapshot_isfile(local) == local # "missing"

\* "os.path.isfile(local_path) and os.path.getsize(local_path) > 0"
HasSnapshot(local) == local = "file"

\* ContentServer.download_db_file: the local file, the backups and the result
download_db_file(f, status, body) ==
    LET local == download_file(f.local, status, body)
    IN [files |-> [f EXCEPT !.local = local,
                            !.backups = IF HasSnapshot(local) THEN @ + 1 ELSE @],
        ret |-> IF HasSnapshot(local) THEN "True" ELSE "False"]

\* a run that would go on whatever download_db_file returned
AfterDownload_continue(ret) == "open"

\* "if c_s.download_db_file(...): ... else: ... sys.exit(1)"
AfterDownload(ret) == IF ret = "True" THEN "open" ELSE "exited"

\* a check that would only look at the first books row
md5_exists_first(db, md5) == \E b \in db.books : b.bid = 1 /\ b.md5 = md5

\* KyBookDB.md5_exists
md5_exists(db, md5) == \E b \in db.books : b.md5 = md5

\* The plugin's job calls main with a non-empty cal_data and no download_dir;
\* the command line calls it without cal_data, with or without download_dir,
\* on a library that may hold no book file.
InitRun ==
    /\ kyb = SnapUsed
    /\ prefs \in [remove_html : BOOLEAN, scan : {"rowid", "index"}]
    /\ hist = NoCall
    /\ up = UpIdle
    /\ source \in {<<RawBook1, RawBook3>>, <<RawBook2>>, <<>>}
    /\ run \in {[RunIdle EXCEPT !.pc = "start", !.conn = c, !.download_dir = d] :
                   c \in BOOLEAN, d \in BOOLEAN}
    /\ run.conn => (source # <<>> /\ ~run.download_dir)
    /\ files \in [local : {"missing", "file"}, backups : {0},
                  remote : {"missing", "empty", "file"}]
    /\ cp = CpIdle
    /\ img = NoImage
    /\ fn = NoFn
    /\ jobs = NoJobs
    /\ chan = NoChannel

\* conn.send(obj): conn is None without cal_data, and None has no send
CanSend(conn) == conn

\* c_s = ContentServer(...): GET / and create_path; on an exception main calls
\* conn.send('no c_s') and returns.  run.sent lists what was sent on conn.
RunConnect(raises) ==
    /\ run.pc = "start"
    /\ run' = [run EXCEPT !.pass = "File sync",
                          !.c_s = IF raises THEN "raised" ELSE "ok",
                          !.sent = IF raises /\ CanSend(run.conn)
                                   THEN Append(@, "no c_s") ELSE @,
                          !.err = IF raises /\ ~CanSend(run.conn) THEN "conn.send" ELSE @,
                          !.pc = IF ~raises THEN "download"
                                 ELSE IF CanSend(run.conn) THEN "returned" ELSE "crashed"]
    /\ UNCHANGED <<kyb, prefs, hist, up, source, files, cp, img, fn, jobs, chan>>

\* c_s.download_db_file(KYB_DB_URL, KYB_DB_FILE) at the head of iterate_cal_data:
\* the server answers 404 when it has no database file, else 200 with the file
RunDownload(snap) ==
    /\ run.pc = "download"
    /\ LET status == IF files.remote = "missing" THEN "404" ELSE "200"
           d == download_db_file(files, status, files.remote)
           written == status = "200" /\ files.remote # "empty"
       IN /\ files' = d.files
          /\ kyb' = IF written THEN snap ELSE kyb
          /\ run' = [run EXCEPT !.ret = d.ret, !.backups0 = files.backups,
                                !.snap = kyb'.books,
                                !.log = Append(@, "download " \o d.ret),
                                !.pc = AfterDownload(d.ret)]
    /\ UNCHANGED <<prefs, hist, up, source, cp, img, fn, jobs, chan>>

\* _http_conn raises inside download_file: nothing handles it
RunDownloadRaises ==
    /\ run.pc = "download"
    /\ run' = [run EXCEPT !.pc = "crashed", !.err = "download"]
    /\ UNCHANGED <<kyb, prefs, hist, up, source, files, cp, img, fn, jobs, chan>>

\* kyb_db.set_collation(OFF), then cal_data = cal_db.get_metadata()
RunOpen ==
    /\ run.pc = "open"
    /\ kyb' = set_collation(kyb, OFF)
    /\ run' = [run EXCEPT !.log = Append(@, "set_collation"), !.pc = "books",
                          !.book = 1, !.file = 1]
    /\ UNCHANGED <<prefs, hist, up, source, files, cp, img, fn, jobs, chan>>

\* "if conn: conn.send({'pass': iteration, 'count': count, 'total': total})"
\* after the last file of a book
Progress(r, r2) == IF r.conn /\ r2.book # r.book THEN Append(r.sent, "progress") ELSE r.sent

\* CalibreDB.send_book_file_to_cs: upload_file(b_file, '/Books/', del_existing=False)
send_book_file_to_cs == [del_existing |-> FALSE, requests |-> <<"upload book">>]

\* 'File sync', one file: get_md5 reads the file (open() raises when it is
\* missing or unreadable), then send_book_file_to_cs unless md5_exists.
\* run.checked lists, per file, whether a books row had its hash and what
\* the run then asked of the content server.
RunSendBookFile(raises) ==
    /\ run.pc = "books" /\ run.pass = "File sync"
    /\ run.book <= Len(source)
    /\ LET md5 == get_md5(source[run.book].paths[run.file])
           requests == IF md5_exists(kyb, md5) THEN <<>> ELSE send_book_file_to_cs.requests
       IN run' = IF raises THEN [run EXCEPT !.pc = "crashed", !.err = "get_md5"]
                 ELSE [NextFile(source, run) EXCEPT
                          !.checked = Append(@, [md5 |-> md5,
                                                 row |-> sel_bid(kyb, md5),
                                                 requests |-> requests]),
                          !.sent = Progress(run, NextFile(source, run)),
                          !.log = @ \o requests]
    /\ UNCHANGED <<kyb, prefs, hist, up, source, files, cp, img, fn, jobs, chan>>

\* the end of the 'File sync' pass: 20 one-second waits, kyb_db.close(); main
\* calls iterate_cal_data again with 'Metadata sync'.  During the wait KyBook 3
\* takes in the uploaded files and is free to rewrite its database file.
\* The 20 'Waiting' events sent on conn are one "waiting" entry of run.sent.
RunWait(remote) ==
    /\ run.pc = "books" /\ run.pass = "File sync"
    /\ run.book > Len(source)
    /\ run' = [run EXCEPT !.pass = "Metadata sync", !.pc = "download",
                          !.sent = IF run.conn THEN Append(@, "waiting") ELSE @]
    /\ files' = [files EXCEPT !.remote = remote]
    /\ UNCHANGED <<kyb, prefs, hist, up, source, cp, img, fn, jobs, chan>>

\* 'Metadata sync', one file: get_md5, the hash is recorded, kyb_db.update,
\* then send_cover_file_to_cs.  get_md5 raises on a missing book file.  A
\* sqlite3.Row has no get: update raises on the records of the command-line
\* mode before it executes any statement.  send_cover_file_to_cs uploads
\* cover.jpg if the hash has a books row, and open() raises when the book has
\* no cover.jpg.
RunUpdate(outcome) ==
    /\ run.pc = "books" /\ run.pass = "Metadata sync"
    /\ run.book <= Len(source)
    /\ outcome \in {"ok", "get_md5", "cover"}
    /\ LET cal_data == get_metadata(source)
           cal_datum == cal_data[run.book]
           md5 == get_md5(cal_datum.paths[run.file])
           row == sel_bid(kyb, md5) # NULL
       IN /\ outcome = "cover" => (row /\ run.conn)
          /\ kyb' = IF run.conn /\ outcome # "get_md5"
                    THEN update(kyb, cal_data, cal_datum, md5, prefs.remove_html, prefs.scan)
                    ELSE kyb
          /\ run' = IF outcome = "get_md5"
                    THEN [run EXCEPT !.pc = "crashed", !.err = "get_md5"]
                    ELSE IF ~run.conn
                    THEN [run EXCEPT !.md5s = Append(@, md5), !.pc = "crashed",
                                     !.err = "row.get"]
                    ELSE IF outcome = "cover"
                    THEN [run EXCEPT !.md5s = Append(@, md5), !.pc = "crashed",
                                     !.err = "cover", !.log = Append(@, "update")]
                    ELSE [NextFile(source, run) EXCEPT
                             !.md5s = Append(@, md5),
                             !.sent = Progress(run, NextFile(source, run)),
                             !.log = @ \o (IF row THEN <<"update", "upload cover">>
                                           ELSE <<"update">>)]
    /\ UNCHANGED <<prefs, hist, up, source, files, cp, img, fn, jobs, chan>>

\* The job's abort event is set (the user cancels the job) while a pass is
\* between two files.  sync_threaded reads the event only while it collects
\* the books, before main starts; main and iterate_cal_data are not given it.
RunAbort ==
    /\ run.pc = "books"
    /\ run.conn
    /\ "abort" \notin Range(run.log)
    /\ run' = [run EXCEPT !.log = Append(@, "abort")]
    /\ UNCHANGED <<kyb, prefs, hist, up, source, files, cp, img, fn, jobs, chan>>

\* the end of the 'Metadata sync' pass: kyb_db.clean_up()
RunCleanUp ==
    /\ run.pc = "books" /\ run.pass = "Metadata sync"
    /\ run.book > Len(source)
    /\ kyb' = clean_up(kyb)
    /\ run' = [run EXCEPT !.log = Append(@, "clean_up"),
                          !.pc = IF run.download_dir THEN "pull" ELSE "collate"]
    /\ UNCHANGED <<prefs, hist, up, source, files, cp, img, fn, jobs, chan>>

\* "for kyb_datum in kyb_data: if not kyb_datum['md5'] in cal_book_file_md5s":
\* the hashes of the destination's files that are not in md5s, in the order
\* of their rows (a books row stands for its row of files)
RECURSIVE NewFiles(_, _)
NewFiles(books, md5s) ==
    IF books = {} THEN <<>>
    ELSE LET b == CHOOSE x \in books : \A y \in books : x.bid <= y.bid
         IN (IF b.md5 \in Range(md5s) THEN <<>> ELSE <<b.md5>>)
            \o NewFiles(books \ {b}, md5s)

\* "if download_dir": download_file for every file of the destination whose
\* hash is not in cal_book_file_md5s.  run.pulled lists the hashes of the files
\* asked of the server; _http_conn may raise at any of the requests.
RunPull(raises) ==
    /\ run.pc = "pull"
    /\ LET new == NewFiles(kyb.books, run.md5s)
       IN /\ raises => new # <<>>
          /\ \E k \in 1..(Len(new) + 1) :
                /\ raises <=> k <= Len(new)
                /\ run' = [run EXCEPT
                              !.log = IF new = <<>> THEN @ ELSE Append(@, "pull"),
                              !.pulled = SubSeq(new, 1, IF raises THEN k ELSE Len(new)),
                              !.pc = IF raises THEN "crashed" ELSE "collate",
                              !.err = IF raises THEN "pull" ELSE @]
    /\ UNCHANGED <<kyb, prefs, hist, up, source, files, cp, img, fn, jobs, chan>>

\* kyb_db.set_collation(ON)
RunSetCollationOn ==
    /\ run.pc = "collate"
    /\ kyb' = set_collation(kyb, ON)
    /\ run' = [run EXCEPT !.log = Append(@, "set_collation"), !.pc = "send"]
    /\ UNCHANGED <<prefs, hist, up, source, files, cp, img, fn, jobs, chan>>

\* conn.send(...), c_s.upload_db_file(KYB_DB_FILE), conn.send(...), 'close'.
\* conn.send is called on None in the command-line mode.  upload_db_file
\* deletes the remote file if the server has it, then posts the local one.
RunUploadDb(outcome) ==
    /\ run.pc = "send"
    /\ outcome \in {"reason", "Failed!", "raise"}
    /\ ~CanSend(run.conn) => outcome = "raise"
    /\ LET exists == upload_db_file.del_existing /\ files.remote # "missing"
       IN IF ~CanSend(run.conn) \/ outcome = "raise"
          THEN /\ run' = [run EXCEPT !.pc = "crashed",
                                      !.sent = IF CanSend(run.conn)
                                               THEN Append(@, "progress") ELSE @,
                                      !.err = IF ~CanSend(run.conn) THEN "conn.send"
                                              ELSE "upload db"]
               /\ files' = files
          ELSE /\ run' = [run EXCEPT
                             !.log = @ \o (IF exists THEN <<"delete db">> ELSE <<>>)
                                       \o <<"upload db">>,
                             !.sent = @ \o <<"progress", "progress", "close">>,
                             !.pc = "done"]
               /\ files' = [files EXCEPT !.remote = IF outcome = "reason" THEN "uploaded"
                                                    ELSE "missing"]
    /\ UNCHANGED <<kyb, prefs, hist, up, source, cp, img, fn, jobs, chan>>

NextRun ==
    \/ \E raises \in BOOLEAN : RunConnect(raises)
    \/ \E snap \in Snapshots : RunDownload(snap)
    \/ RunDownloadRaises
    \/ RunOpen
    \/ \E raises \in BOOLEAN : RunSendBookFile(raises)
    \/ \E remote \in {"missing", "empty", "file"} : RunWait(remote)
    \/ \E outcome \in {"ok", "get_md5", "cover"} : RunUpdate(outcome)
    \/ RunAbort
    \/ RunCleanUp
    \/ \E raises \in BOOLEAN : RunPull(raises)
    \/ RunSetCollationOn
    \/ \E outcome \in {"reason", "Failed!", "raise"} : RunUploadDb(outcome)

SpecRun == InitRun /\ [][NextRun]_vars

\* C9: download_db_file returns False exactly when the local file is missing or
\* zero-length after the download attempt; a call that returns False makes no
\* backup copy, and a call that returns True makes exactly one.
C9_DownloadResult ==
    run.ret # None =>
        /\ (run.ret = "False") <=> (files.local \in {"missing", "empty"})
        /\ run.ret = "False" => files.backups = run.backups0
        /\ run.ret = "True" => files.backups = run.backups0 + 1

\* C9 witness: the server has a zero-byte database file
C9_Witness ==
    run.ret = "False" /\ files.local = "empty" /\ files.remote = "empty"

\* C10: once download_db_file has returned False, in either pass, the run has
\* exited and issues nothing more: no update, clean_up, set_collation, remote
\* delete or upload of the database file follows in its log.
C10_FatalStopsRun ==
    /\ run.ret = "False" => run.pc = "exited"
    /\ \A i \in DOMAIN run.log :
          run.log[i] = "download False" => i = Len(run.log)
    /\ run.pc = "exited" => files.remote # "uploaded"

\* C10 witness: the download of the second pass returned False
C10_Witness ==
    run.pc = "exited" /\ run.pass = "Metadata sync" /\ run.ret = "False"

\* C7: from the download on, the (bid, md5) rows of the local books table are
\* those of the downloaded snapshot: no operation of the run inserts, deletes
\* or changes one.
C7_BooksUntouched ==
    (run.ret = "True" /\ files.local = "file") => kyb.books = run.snap

\* C7 witness: a run that updated, sent a cover, cleaned up and uploaded the database
C7_Witness ==
    /\ run.pc = "done"
    /\ {"update", "upload cover", "clean_up", "upload db"} \subseteq Range(run.log)

\* C11 (as claimed): when constructing ContentServer raises, the run sends the
\* 'no c_s' sentinel exactly once and returns, with or without a progress
\* channel; nothing is downloaded, changed, uploaded or deleted.
C11_ConnectFailureReported ==
    run.c_s = "raised" =>
        /\ run.pc = "returned"
        /\ Count(run.sent, "no c_s") = 1
        /\ run.log = <<>>
        /\ kyb = SnapUsed
        /\ files.backups = 0 /\ files.remote # "uploaded"

\* C12: in the file pass a book file is uploaded exactly when no books row
\* has its content hash at the time of the check, by one upload request and
\* no delete; a file whose hash has a row causes no request at all.
C12_FilePassUploadDecision ==
    \A i \in DOMAIN run.checked :
        LET c == run.checked[i]
        IN /\ c.row = NULL <=> c.requests = <<"upload book">>
           /\ c.row # NULL <=> c.requests = <<>>
           /\ ~send_book_file_to_cs.del_existing

\* C12 witness: one file pass that skipped a file and uploaded another
C12_Witness ==
    \E i, j \in DOMAIN run.checked :
        run.checked[i].requests = <<>> /\ run.checked[j].requests # <<>>

\* the position of the first event e of the call (0 if there is none)
First(events, e) ==
    IF \E i \in DOMAIN events : events[i] = e
    THEN CHOOSE i \in DOMAIN events : events[i] = e /\ \A j \in 1..(i - 1) : events[j] # e
    ELSE 0

\* C13: with del_existing set and a positive probe, a DELETE is issued before
\* the first POST; with del_existing unset the call issues neither a probe nor
\* a DELETE; upload_db_file always calls upload_file with del_existing set.
C13_DeleteBeforeOverwrite ==
    /\ (up.del_existing /\ up.probe = "200" /\ Posts > 0) =>
          (First(up.events, "DELETE") > 0
           /\ First(up.events, "DELETE") < First(up.events, "POST"))
    /\ (up.del_existing /\ up.probe = "404") => Count(up.events, "DELETE") = 0
    /\ ~up.del_existing => (Count(up.events, "DELETE") = 0 /\ Count(up.events, "HEAD") = 0)
    /\ up.caller = "upload_db_file" => up.del_existing

\* C13 witness: an upload_db_file call that found the remote file, deleted it
\* and posted
C13_Witness ==
    /\ up.caller = "upload_db_file" /\ up.probe = "200" /\ up.pc = "done"
    /\ First(up.events, "DELETE") > 0 /\ Posts > 0

(***************************************************************************)
(* SpecCreate: ContentServer.create_path against a server that answers the *)
(* existence probes from the directories it has.  A path is a sequence of  *)
(* tokens, each the separator "/" or a name.                               *)
(***************************************************************************)
RECURSIVE RStrip(_)
RStrip(path) ==
    IF path # <<>> /\ path[Len(path)] = "/" THEN RStrip(SubSeq(path, 1, Len(path) - 1))
    ELSE path

\* os.path.split: the head up to the last separator, stripped of trailing
\* separators unless it is made of separators only, and the tail after it
split(path) ==
    LET seps == {i \in DOMAIN path : path[i] = "/"}
        i == IF seps = {} THEN 0 ELSE Max(seps)
        head == SubSeq(path, 1, i)
    IN <<IF head # <<>> /\ (\E k \in DOMAIN head : head[k] # "/") THEN RStrip(head) ELSE head,
         SubSeq(path, i + 1, Len(path))>>

\* ContentServer._split_path
RECURSIVE split_path(_, _)
split_path(path, allparts) ==
    LET parts == split(path)
    IN IF parts[1] = path THEN <<parts[1]>> \o allparts
       ELSE IF parts[2] = path THEN <<parts[2]>> \o allparts
       ELSE split_path(parts[1], <<parts[2]>> \o allparts)

\* the paths create_path is called with: '$User/covers' by ContentServer.__init__
CreatePaths ==
    {<<"$User", "/", "covers">>, <<"$User">>, <<"/", "$User", "/", "covers">>,
     <<"$User", "/", "covers", "/">>}

CreateDirs == {{}, {<<"/", "$User">>}, {<<"/", "$User">>, <<"/", "$User", "/", "covers">>}}

\* the next turn of "for part in self._split_path(full_path)"
NextPart(c) ==
    IF c.i = Len(c.parts) THEN [c EXCEPT !.pc = "done"]
    ELSE [c EXCEPT !.pc = "probe", !.i = c.i + 1,
                   !.cur = c.cur \o <<"/">> \o c.parts[c.i + 1]]

\* create_path(full_path) is entered: the path is split, path = '' + '/' + part
CreateCall(full_path) ==
    /\ cp.pc \in {"idle", "done", "raised"}
    /\ cp.n < MaxCreates
    /\ LET parts == split_path(full_path, <<>>)
       IN cp' = [cp EXCEPT !.pc = "probe", !.path = full_path, !.parts = parts, !.i = 1,
                           !.cur = <<"/">> \o parts[1], !.requests = <<>>,
                           !.dirs0 = cp.dirs, !.n = cp.n + 1]
    /\ UNCHANGED notCp

\* dir_exists(path): HEAD /list?path=..., True on status 200; the transport
\* raising escapes (no handler in _http_conn)
CreateProbe(raises) ==
    /\ cp.pc = "probe"
    /\ LET answer == IF raises THEN "raise" ELSE IF cp.cur \in cp.dirs THEN "200" ELSE "404"
           c == [cp EXCEPT !.requests = Append(@, [method |-> "HEAD", path |-> cp.cur,
                                                   answer |-> answer])]
       IN cp' = IF raises THEN [c EXCEPT !.pc = "raised"]
                ELSE IF answer = "200" THEN NextPart(c)
                ELSE [c EXCEPT !.pc = "create"]
    /\ UNCHANGED notCp

\* POST /create with the path; the response is only logged
CreatePost(answer) ==
    /\ cp.pc = "create"
    /\ LET c == [cp EXCEPT !.requests = Append(@, [method |-> "POST", path |-> cp.cur,
                                                   answer |-> answer]),
                           !.dirs = IF answer = "200" THEN @ \cup {cp.cur} ELSE @]
       IN cp' = IF answer = "raise" THEN [c EXCEPT !.pc = "raised"] ELSE NextPart(c)
    /\ UNCHANGED notCp

InitCreate ==
    /\ kyb = SnapEmpty
    /\ prefs = [remove_html |-> FALSE, scan |-> "rowid"]
    /\ hist = NoCall
    /\ up = UpIdle
    /\ source = RawCalData
    /\ run = RunIdle
    /\ files = NoFiles
    /\ cp \in {[CpIdle EXCEPT !.dirs = d] : d \in CreateDirs}
    /\ img = NoImage
    /\ fn = NoFn
    /\ jobs = NoJobs
    /\ chan = NoChannel

NextCreate ==
    \/ \E full_path \in CreatePaths : CreateCall(full_path)
    \/ \E raises \in BOOLEAN : CreateProbe(raises)
    \/ \E answer \in {"200", "500", "raise"} : CreatePost(answer)

SpecCreate == InitCreate /\ [][NextCreate]_vars

\* the names of a path, in order
RECURSIVE Segments(_)
Segments(path) ==
    IF path = <<>> THEN <<>>
    ELSE IF Head(path) = "/" THEN Segments(Tail(path))
    ELSE <<Head(path)>> \o Segments(Tail(path))

\* the cumulative prefixes of a path, from its root segment to the full path
RECURSIVE Prefixes(_, _)
Prefixes(segments, base) ==
    IF segments = <<>> THEN <<>>
    ELSE <<base \o <<"/", Head(segments)>>>>
         \o Prefixes(Tail(segments), base \o <<"/", Head(segments)>>)

Probed == SelectSeq(cp.requests, LAMBDA r : r.method = "HEAD")

\* C14 (as claimed): create_path(p) probes the cumulative prefixes of p in
\* order, issues a POST /create for a prefix exactly after its probe was
\* negative, and issues no create when every prefix existed at the call.
C14_CreatePathTopDown ==
    LET want == Prefixes(Segments(cp.path), <<>>)
    IN /\ Len(Probed) <= Len(want)
       /\ \A k \in DOMAIN Probed : k <= Len(want) => Probed[k].path = want[k]
       /\ cp.pc = "done" => Len(Probed) = Len(want)
       /\ \A i \in DOMAIN cp.requests :
             cp.requests[i].method = "POST" =>
                 /\ i > 1
                 /\ cp.requests[i - 1] = [method |-> "HEAD", path |-> cp.requests[i].path,
                                          answer |-> "404"]
       /\ \A i \in DOMAIN cp.requests :
             (cp.requests[i].method = "HEAD" /\ cp.requests[i].answer = "404"
                 /\ i < Len(cp.requests)) =>
                 (cp.requests[i + 1].method = "POST"
                  /\ cp.requests[i + 1].path = cp.requests[i].path)
       /\ (cp.pc = "done" /\ Range(want) \subseteq cp.dirs0) =>
             \A i \in DOMAIN cp.requests : cp.requests[i].method # "POST"

\* C14 for the relative paths without a trailing separator, the form
\* ContentServer.__init__ passes
C14_RelativePaths ==
    cp.path \in {<<"$User", "/", "covers">>, <<"$User">>} => C14_CreatePathTopDown

\* C15 (as claimed): file_exists returns False and raises nothing when the
\* transport fails, so an upload_file call with del_existing set goes on to
\* its POST; it returns True only on a 200 answer.
C15_ProbeDegradesToFalse ==
    /\ up.probe = "raise" =>
          (up.pc \in {"post", "sleep", "log", "done"} /\ Count(up.events, "DELETE") = 0)
    /\ Count(up.events, "DELETE") > 0 => up.probe = "200"

\* C16 (as claimed): a book file that is missing or unreadable on disk, or a
\* content hash without a destination row, never ends the run: the run goes
\* on with the next book.
C16_MismatchSkipsBook ==
    run.err = "get_md5" => run.pc \notin {"crashed", "exited", "returned"}

\* C17 (as claimed): a single failed transfer (an upload that exhausted its
\* attempts, a download that met a transport error or a non-200 answer) never
\* ends the run.
C17_TransferErrorNonFatal ==
    run.err = "pull" => run.pc \notin {"crashed", "exited", "returned"}

\* C18 (as claimed): once the abort signal is set, no later book is
\* processed: no file upload and no update follows it in the run.
C18_AbortStopsBooks ==
    \A i, j \in DOMAIN run.log :
        (run.log[i] = "abort" /\ j > i) =>
            run.log[j] \notin {"upload book", "update", "upload cover"}

\* the sentinels sent on conn
Sentinels == SelectSeq(run.sent, LAMBDA m : m \in {"no c_s", "close"})

\* C19 (as claimed): a run with a progress channel that has ended, whatever
\* the outcome of the snapshot download and of the per-book steps, has sent
\* exactly one sentinel, as its last message: 'no c_s' when the content
\* server was unreachable, else 'close'.
C19_OneSentinel ==
    (run.conn /\ run.pc \in {"returned", "exited", "crashed", "done"}) =>
        /\ Len(Sentinels) = 1
        /\ run.sent[Len(run.sent)] = Sentinels[1]
        /\ Sentinels[1] = (IF run.c_s = "raised" THEN "no c_s" ELSE "close")

----------------------------------------------------------------------------
\* SpecThumb: _get_thumb applied to a cover image of any size up to MaxDim.

\* int(float(a) * float(b / float(c))): the floor of a*b/c; where c divides
\* a*b but not b, the quotient b/c is rounded and the product may fall just
\* below the integer, so that int() yields one less.
Scaled(a, b, c) ==
    {(a * b) \div c} \cup
    (IF (a * b) % c = 0 /\ b % c # 0 THEN {((a * b) \div c) - 1} ELSE {})

\* height / width is a division of two ints, an int: it exceeds
\* 1.418918918918919 exactly when it is 2 or more.
reduce_image_size(width, height, thumb_height, thumb_width) ==
    IF height \div width > 1
    THEN {<<w, thumb_height>> : w \in Scaled(width, thumb_height, height)}
    ELSE {<<thumb_width, h>> : h \in Scaled(height, thumb_width, width)}

\* the sizes _get_thumb may give the thumbnail of an image it could open
get_thumb(width, height) ==
    IF width > THUMB_WIDTH \/ height > THUMB_HEIGHT
    THEN reduce_image_size(width, height, THUMB_HEIGHT, THUMB_WIDTH)
    ELSE {<<width, height>>}

Covers ==
    {[NoImage EXCEPT !.exists = TRUE, !.width = w, !.height = h] :
        w \in 1..MaxDim, h \in 1..MaxDim} \cup {NoImage}

InitThumb ==
    /\ kyb = SnapEmpty
    /\ prefs = [collation |-> ON, scan |-> "rowid"]
    /\ hist = <<>>
    /\ up = UpIdle
    /\ source = <<>>
    /\ run = RunIdle
    /\ files = NoFiles
    /\ cp = CpIdle
    /\ img \in Covers
    /\ fn = NoFn
    /\ jobs = NoJobs
    /\ chan = NoChannel

\* the cover file opens: the thumbnail is the image, reduced if it is too large
GetThumb ==
    /\ img.pc = "idle"
    /\ img.exists
    /\ \E t \in get_thumb(img.width, img.height) :
        img' = [img EXCEPT !.pc = "done", !.thumb = t, !.empty = FALSE]
    /\ UNCHANGED notImg

\* the cover file does not open: an empty thumbnail
GetThumbNoCover ==
    /\ img.pc = "idle"
    /\ ~img.exists
    /\ img' = [img EXCEPT !.pc = "done", !.thumb = <<0, 0>>, !.empty = TRUE]
    /\ UNCHANGED notImg

NextThumb ==
    \/ GetThumb
    \/ GetThumbNoCover

SpecThumb == InitThumb /\ [][NextThumb]_vars

\* C20: the thumbnail of every cover image of width >= 1 and height >= 1 is
\* at most 74 wide and at most 105 high, and an image already within 74 x 105
\* keeps its size.
C20_ThumbWithinBox ==
    (img.pc = "done" /\ img.exists) =>
        /\ img.thumb[1] <= THUMB_WIDTH
        /\ img.thumb[2] <= THUMB_HEIGHT
        /\ (img.width <= THUMB_WIDTH /\ img.height <= THUMB_HEIGHT) =>
                img.thumb = <<img.width, img.height>>

\* supporting C20: an image at least twice as high as wide is constrained by
\* height and fits, and so does an image no higher than 105/74 of its width
C20_FitsOutsideGap ==
    (img.pc = "done" /\ img.exists
        /\ (img.height >= 2 * img.width
            \/ img.height * THUMB_WIDTH <= THUMB_HEIGHT * img.width)) =>
        (img.thumb[1] <= THUMB_WIDTH /\ img.thumb[2] <= THUMB_HEIGHT)

----------------------------------------------------------------------------
\* SpecHtml: the annotation update() stores for the comments of a record,
\* with and without remove_html.

HtmlChars == {"<", ">", "\"", "'", "a"}

\* '<p>Hello <b class="x">world</b></p>'
HtmlExample ==
    <<"<", "p", ">", "H", "e", "l", "l", "o", " ", "<", "b", " ", "c", "l", "a", "s", "s",
      "=", "\"", "x", "\"", ">", "w", "o", "r", "l", "d", "<", "/", "b", ">", "<", "/", "p", ">">>

Texts(n) == UNION {[1..k -> HtmlChars] : k \in 0..n}

InitHtml ==
    /\ kyb = SnapEmpty
    /\ prefs = [remove_html |-> FALSE, scan |-> "rowid"]
    /\ hist = NoCall
    /\ up = UpIdle
    /\ source = <<>>
    /\ run = RunIdle
    /\ files = NoFiles
    /\ cp = CpIdle
    /\ img = NoImage
    /\ fn \in {[pc |-> "idle", string |-> t, remove_html |-> FALSE, out |-> <<>>] :
                t \in Texts(MaxHtml) \cup {HtmlExample}}
    /\ jobs = NoJobs
    /\ chan = NoChannel

\* annotation = row.get('comments', ''), then _remove_html_markup(annotation)
AnnotationStripped ==
    /\ fn.pc = "idle"
    /\ fn' = [fn EXCEPT !.pc = "done", !.remove_html = TRUE,
                        !.out = remove_html_markup(fn.string)]
    /\ UNCHANGED notFn

\* annotation = row.get('comments', ''), remove_html off
AnnotationKept ==
    /\ fn.pc = "idle"
    /\ fn' = [fn EXCEPT !.pc = "done", !.out = fn.string]
    /\ UNCHANGED notFn

NextHtml ==
    \/ AnnotationStripped
    \/ AnnotationKept

SpecHtml == InitHtml /\ [][NextHtml]_vars

\* a is b with some elements left out, the others in their order
RECURSIVE IsSubSeq(_, _)
IsSubSeq(a, b) ==
    IF a = <<>> THEN TRUE
    ELSE IF b = <<>> THEN FALSE
    ELSE IF Head(a) = Head(b) THEN IsSubSeq(Tail(a), Tail(b))
    ELSE IsSubSeq(a, Tail(b))

Brackets == {"<", ">"}
Quotes == {"\"", "'"}
Plain(text) == Range(text) \cap (Brackets \cup Quotes) = {}

\* the inside of a tag: plain text, or plain text around one quoted value
\* that holds no quote character
TagBody(mid) ==
    \/ Plain(mid)
    \/ \E i, j \in DOMAIN mid :
        /\ i < j
        /\ mid[i] \in Quotes
        /\ mid[j] = mid[i]
        /\ Plain(SubSeq(mid, 1, i - 1))
        /\ Plain(SubSeq(mid, j + 1, Len(mid)))
        /\ Range(SubSeq(mid, i + 1, j - 1)) \cap Quotes = {}

\* C21: with remove_html the stored annotation holds, in input order, only
\* characters of the comments that are outside any tag: a tag from its '<' to
\* its closing '>' is dropped with its quoted attribute values, no '<' or '>'
\* is left, comments holding neither are kept as they are, empty comments
\* give the empty text, and the example gives 'Hello world'.
C21_HtmlStripped ==
    (fn.pc = "done" /\ fn.remove_html) =>
        /\ IsSubSeq(fn.out, fn.string)
        /\ Range(fn.out) \cap Brackets = {}
        /\ (Range(fn.string) \cap Brackets = {}) => fn.out = fn.string
        /\ fn.string = <<>> => fn.out = <<>>
        /\ fn.string = HtmlExample =>
                fn.out = <<"H", "e", "l", "l", "o", " ", "w", "o", "r", "l", "d">>
        /\ \A i, j \in DOMAIN fn.string :
                (/\ i < j
                 /\ fn.string[i] = "<"
                 /\ fn.string[j] = ">"
                 /\ Range(SubSeq(fn.string, 1, i - 1)) \cap Brackets = {}
                 /\ TagBody(SubSeq(fn.string, i + 1, j - 1)))
                => fn.out = SubSeq(fn.string, 1, i - 1)
                            \o remove_html_markup(SubSeq(fn.string, j + 1, Len(fn.string)))

\* a tag with a quoted '>' in it has been stripped
C21_Witness ==
    /\ fn.pc = "done"
    /\ fn.remove_html
    /\ fn.string = <<"<", "\"", ">", "\"", ">">>
    /\ fn.out = <<>>

----------------------------------------------------------------------------
\* SpecMeta: get_metadata, pre-materialized mode, on a record with any
\* languages list of up to MaxLangs entries.

LangCodes ==
    {<<"e", "n", "g">>, <<"E", "N", "G">>, <<"f", "r", "a">>, <<"d", "e", "u">>,
     <<"z", "h">>, <<"e">>, <<>>, T_language}

LanguageLists == UNION {[1..k -> LangCodes] : k \in 0..MaxLangs}

InitMeta ==
    /\ kyb = SnapEmpty
    /\ prefs = [remove_html |-> FALSE, scan |-> "rowid"]
    /\ hist = NoCall
    /\ up = UpIdle
    /\ source = <<>>
    /\ run = RunIdle
    /\ files = NoFiles
    /\ cp = CpIdle
    /\ img = NoImage
    /\ fn \in {[pc |-> "idle", languages |-> l, language |-> <<>>] : l \in LanguageLists}
    /\ jobs = NoJobs
    /\ chan = NoChannel

\* get_metadata on cal_data holding the record
GetMetadata ==
    /\ fn.pc = "idle"
    /\ fn' = [fn EXCEPT !.pc = "done",
                        !.language =
                            get_metadata(<<[RawBook1 EXCEPT !.languages = fn.languages]>>)[1].language]
    /\ UNCHANGED notFn

NextMeta ==
    \/ GetMetadata

SpecMeta == InitMeta /\ [][NextMeta]_vars

\* text[0:2]
FirstTwo(text) == SubSeq(text, 1, IF Len(text) < 2 THEN Len(text) ELSE 2)

\* C25 (as claimed): get_metadata sets the record's language to the first two
\* characters, lowercased, of the first entry of its languages list, and to
\* the empty string when the list has no entry.
C25_LanguageCode ==
    fn.pc = "done" =>
        fn.language = (IF fn.languages = <<>> THEN <<>>
                       ELSE LowerText(FirstTwo(fn.languages[1])))

\* supporting C25: the language is that code or empty, and it is that code for
\* every list that holds the entry 'language'
C25_CodeOrEmpty ==
    fn.pc = "done" =>
        /\ fn.language \in {<<>>, IF fn.languages = <<>> THEN <<>>
                                  ELSE LowerText(FirstTwo(fn.languages[1]))}
        /\ T_language \in Range(fn.languages) =>
                fn.language = LowerText(FirstTwo(fn.languages[1]))

----------------------------------------------------------------------------
\* the content hashes of the book files of the source
SourceHashes == {get_md5(source[i].paths[j]) : i \in DOMAIN source, j \in {1}}

\* the hashes of the destination's files that no book file of the source has
DestinationOnly == {b.md5 : b \in kyb.books} \ SourceHashes

\* the run got to its metadata pass and is over, and no file failed to open
\* and no request to the server failed in it
RunOverNoTransferError ==
    /\ run.pass = "Metadata sync"
    /\ run.pc \in {"done", "crashed"}
    /\ run.err \notin {"download", "get_md5", "cover", "pull", "upload db"}

\* C26 (as claimed): with a download directory, a run that got to its metadata
\* pass has downloaded, when it is over, exactly the destination files whose
\* hash no source book file has; without a download directory none is
\* downloaded.
C26_PullsDestinationOnly ==
    /\ (run.download_dir /\ RunOverNoTransferError) => Range(run.pulled) = DestinationOnly
    /\ ~run.download_dir => run.pulled = <<>>

\* supporting C26: no file whose hash was recorded from a source book file is
\* downloaded, and a pull that is not cut short takes every other file
C26_NeverPullsSourceFile ==
    /\ Range(run.pulled) \cap Range(run.md5s) = {}
    /\ (run.download_dir /\ run.pc \in {"collate", "send", "done"}) =>
            Range(run.pulled) = {b.md5 : b \in kyb.books} \ Range(run.md5s)
    /\ ~run.download_dir => run.pulled = <<>>

----------------------------------------------------------------------------
\* SpecFlight: syncs started from the dialog (synchronize, start_sync_threaded)
\* and from the command line, all on the one KYB_DB_FILE.  jobs.file is the
\* run whose download last wrote the file; jobs.mixed tells that a run has
\* written to, or uploaded, a file it was not the last to download.

InitFlight ==
    /\ kyb = SnapEmpty
    /\ prefs = [remove_html |-> FALSE, scan |-> "rowid"]
    /\ hist = NoCall
    /\ up = UpIdle
    /\ source = <<>>
    /\ run = RunIdle
    /\ files = NoFiles
    /\ cp = CpIdle
    /\ img = NoImage
    /\ fn = NoFn
    /\ jobs = NoJobs
    /\ chan = NoChannel

Active(r) == r.pc \in {"download", "write", "upload"}

\* "if __name__ == '__main__': main(**vars(ARGS))": a process that runs main
CommandLine ==
    /\ Len(jobs.runs) < MaxSyncs
    /\ jobs' = [jobs EXCEPT !.runs = Append(@, [via |-> "command line", pc |-> "download"])]
    /\ UNCHANGED notJobs

\* KyBook3SyncDialog.synchronize: start_sync_threaded makes a ThreadedJob and
\* hands it to the job manager; neither looks for a sync that is running
Synchronize ==
    /\ Len(jobs.runs) < MaxSyncs
    /\ jobs' = [jobs EXCEPT !.runs = Append(@, [via |-> "dialog", pc |-> "queued"])]
    /\ UNCHANGED notJobs

\* the job manager runs sync_threaded, which starts the thread of main; it
\* runs one ThreadedJob of a type at a time unless the job is made with
\* another max_concurrent_count, and start_sync_threaded gives none
JobStart(i) ==
    /\ jobs.runs[i].pc = "queued"
    /\ ~\E j \in DOMAIN jobs.runs : jobs.runs[j].via = "dialog" /\ Active(jobs.runs[j])
    /\ jobs' = [jobs EXCEPT !.runs[i].pc = "download"]
    /\ UNCHANGED notJobs

\* download_db_file(KYB_DB_URL, KYB_DB_FILE) overwrites the file
FlightDownload(i) ==
    /\ jobs.runs[i].pc = "download"
    /\ jobs' = [jobs EXCEPT !.runs[i].pc = "write", !.file = i]
    /\ UNCHANGED notJobs

\* set_collation, update, clean_up on KyBookDB(KYB_DB_FILE, ...)
FlightWrite(i) ==
    /\ jobs.runs[i].pc = "write"
    /\ jobs' = [jobs EXCEPT !.runs[i].pc = "upload", !.mixed = @ \/ jobs.file # i]
    /\ UNCHANGED notJobs

\* upload_db_file(KYB_DB_FILE), then 'close': sync_threaded returns
FlightUpload(i) ==
    /\ jobs.runs[i].pc = "upload"
    /\ jobs' = [jobs EXCEPT !.runs[i].pc = "done", !.mixed = @ \/ jobs.file # i]
    /\ UNCHANGED notJobs

NextFlight ==
    \/ CommandLine
    \/ Synchronize
    \/ \E i \in DOMAIN jobs.runs : JobStart(i)
    \/ \E i \in DOMAIN jobs.runs : FlightDownload(i)
    \/ \E i \in DOMAIN jobs.runs : FlightWrite(i)
    \/ \E i \in DOMAIN jobs.runs : FlightUpload(i)

SpecFlight == InitFlight /\ [][NextFlight]_vars

\* C27 (as claimed): at most one sync run works on KYB_DB_FILE at any time,
\* and no run writes to or uploads a file another run has downloaded over.
C27_SingleFlight ==
    /\ Cardinality({i \in DOMAIN jobs.runs : Active(jobs.runs[i])}) <= 1
    /\ ~jobs.mixed

\* supporting C27: two syncs started from the dialog do not run at the same time
C27_DialogJobsInTurn ==
    Cardinality({i \in DOMAIN jobs.runs :
                    jobs.runs[i].via = "dialog" /\ Active(jobs.runs[i])}) <= 1

----------------------------------------------------------------------------
\* SpecHash: get_md5 called through CalibreDB objects made for the plug-in
\* (cal_data given: the row is the path of the file) and for the command line
\* (the path is built from the library path and the row), on files with any
\* content of up to MaxBytes bytes.

Libraries == {"L1", "L2"}
BookFiles == {<<l, "book.epub">> : l \in Libraries}
Contents == UNION {[1..k -> {0, 1}] : k \in 0..MaxBytes}

\* CalibreDB objects: one per library path, with or without cal_data
Instances == [lib_path : Libraries, cal_data : BOOLEAN]

\* hashlib.md5(...).hexdigest(): a digest the bytes determine, here their
\* positional value (no two contents of the model collide)
RECURSIVE Digest(_, _)
Digest(bytes, h) ==
    IF bytes = <<>> THEN h ELSE Digest(Tail(bytes), 3 * h + Head(bytes) + 1)

\* path_from_row: the row itself with cal_data, else lib_path joined to the row
path_from_row(self, row) ==
    IF self.cal_data THEN row ELSE <<self.lib_path, row[2]>>

\* a hash that would mix in the path of the file
md5_of_file_path(self, disk, row) ==
    Digest(disk[path_from_row(self, row)], IF path_from_row(self, row)[1] = "L1" THEN 1 ELSE 2)

\* get_md5: hashlib.md5(open(b_file, 'rb').read()).hexdigest()
md5_of_file(self, disk, row) == Digest(disk[path_from_row(self, row)], 0)

InitHash ==
    /\ kyb = SnapEmpty
    /\ prefs = [remove_html |-> FALSE, scan |-> "rowid"]
    /\ hist = NoCall
    /\ up = UpIdle
    /\ source = <<>>
    /\ run = RunIdle
    /\ files = NoFiles
    /\ cp = CpIdle
    /\ img = NoImage
    /\ fn \in {[pc |-> "idle", disk |-> d, disk0 |-> d, calls |-> <<>>] :
                d \in [BookFiles -> Contents]}
    /\ jobs = NoJobs
    /\ chan = NoChannel

\* one call of get_md5; the file is opened for reading only
GetMd5(self, row) ==
    /\ Len(fn.calls) < MaxHashCalls
    /\ fn' = [fn EXCEPT !.pc = "called",
                        !.calls = Append(@, [self |-> self,
                                             b_file |-> path_from_row(self, row),
                                             bytes |-> fn.disk[path_from_row(self, row)],
                                             md5 |-> md5_of_file(self, fn.disk, row)])]
    /\ UNCHANGED notFn

NextHash ==
    \/ \E self \in Instances, row \in BookFiles : GetMd5(self, row)

SpecHash == InitHash /\ [][NextHash]_vars

\* C28: two get_md5 calls on the same bytes give the same hash, whichever
\* CalibreDB object makes the call and whichever file holds the bytes, and
\* the calls leave the files and both catalogs as they were.
C28_JoinKeyStable ==
    /\ \A i, j \in DOMAIN fn.calls :
            fn.calls[i].bytes = fn.calls[j].bytes => fn.calls[i].md5 = fn.calls[j].md5
    /\ fn.disk = fn.disk0
    /\ kyb = SnapEmpty
    /\ source = <<>>

\* two objects for two libraries have hashed two files with the same bytes
C28_Witness ==
    /\ Len(fn.calls) = 2
    /\ fn.calls[1].self # fn.calls[2].self
    /\ fn.calls[1].b_file # fn.calls[2].b_file
    /\ fn.calls[1].bytes = fn.calls[2].bytes
    /\ fn.calls[1].bytes # <<>>
    /\ fn.calls[1].md5 = fn.calls[2].md5

----------------------------------------------------------------------------
\* SpecFormats: sync_threaded collects the books it hands to main from the
\* selected books, their formats and the configured formats (prefs['formats']).

EPUB == <<"E", "P", "U", "B">>
PDF == <<"P", "D", "F">>
MOBI == <<"M", "O", "B", "I">>

\* lists of distinct formats
FormatLists ==
    {l \in UNION {[1..k -> {EPUB, PDF, MOBI}] : k \in 0..MaxFormats} :
        \A i, j \in DOMAIN l : l[i] = l[j] => i = j}

\* "if not any(fmt in formats for fmt in formats_to_sync)"
NoRequiredFormat(formats, formats_to_sync) ==
    ~\E i \in DOMAIN formats_to_sync : formats_to_sync[i] \in Range(formats)

\* "for fmt in formats: fmt = fmt.lower(); path = db.format_abspath(book_id, fmt);
\* paths.append(path)": a path is the book and the format of its file
BookPaths(book_id, formats) ==
    [i \in DOMAIN formats |-> [id |-> book_id, fmt |-> LowerText(formats[i])]]

InitFormats ==
    /\ kyb = SnapEmpty
    /\ prefs = [remove_html |-> FALSE, scan |-> "rowid"]
    /\ hist = NoCall
    /\ up = UpIdle
    /\ source = <<>>
    /\ run = RunIdle
    /\ files = NoFiles
    /\ cp = CpIdle
    /\ img = NoImage
    /\ fn \in {[pc |-> "collect", formats_to_sync |-> f, ids |-> ids, i |-> 1,
                books |-> <<>>, failed_ids |-> <<>>, no_format_ids |-> <<>>,
                handed |-> <<>>] :
                f \in FormatLists,
                ids \in UNION {[1..k -> FormatLists] : k \in 1..MaxSelected}}
    /\ jobs = NoJobs
    /\ chan = NoChannel

\* one turn of "for book_id in ids" (fn.ids[i] is the formats of book i)
CollectBook ==
    /\ fn.pc = "collect"
    /\ fn.i <= Len(fn.ids)
    /\ LET formats == fn.ids[fn.i]
           paths == BookPaths(fn.i, formats)
       IN fn' = IF NoRequiredFormat(formats, fn.formats_to_sync)
                THEN [fn EXCEPT !.i = @ + 1,
                                !.failed_ids = Append(@, fn.i),
                                !.no_format_ids = Append(@, fn.i)]
                ELSE [fn EXCEPT !.i = @ + 1,
                                !.books = IF paths # <<>>
                                          THEN Append(@, [id |-> fn.i, paths |-> paths])
                                          ELSE @]
    /\ UNCHANGED notFn

\* "if books:": the thread of main is started with the books
HandToMain ==
    /\ fn.pc = "collect"
    /\ fn.i > Len(fn.ids)
    /\ fn' = [fn EXCEPT !.pc = "done", !.handed = fn.books]
    /\ UNCHANGED notFn

NextFormats ==
    \/ CollectBook
    \/ HandToMain

SpecFormats == InitFormats /\ [][NextFormats]_vars

Configured(fmt) == \E i \in DOMAIN fn.formats_to_sync : LowerText(fn.formats_to_sync[i]) = fmt

\* every selected book without a file in a configured format is recorded as
\* failed and as without format, and is not handed to main
NoFormatBooksRecorded ==
    \A b \in DOMAIN fn.ids :
        NoRequiredFormat(fn.ids[b], fn.formats_to_sync) =>
            /\ b \in Range(fn.failed_ids)
            /\ b \in Range(fn.no_format_ids)
            /\ ~\E k \in DOMAIN fn.handed : fn.handed[k].id = b

\* C29 (as claimed): a selected book with no file in a configured format is
\* recorded as failed/no-format and not handed to the sync, and the paths of a
\* book that is handed to the sync are those of its files in configured
\* formats only.
C29_FormatsGateSync ==
    fn.pc = "done" =>
        /\ NoFormatBooksRecorded
        /\ \A k \in DOMAIN fn.handed :
                \A p \in DOMAIN fn.handed[k].paths : Configured(fn.handed[k].paths[p].fmt)

\* supporting C29: the first half, and every book handed to the sync has a
\* file in a configured format
C29_BooksGated ==
    fn.pc = "done" =>
        /\ NoFormatBooksRecorded
        /\ \A k \in DOMAIN fn.handed :
                ~NoRequiredFormat(fn.ids[fn.handed[k].id], fn.formats_to_sync)

----------------------------------------------------------------------------
\* the positions of an operation in the log of the run
At(e) == {i \in DOMAIN run.log : run.log[i] = e}

\* the run has its connection and both its snapshots
PassedChecks == run.c_s = "ok" /\ Cardinality(At("download True")) = 2

\* the order of what the run has issued so far: book files between the two
\* snapshots, updates before clean_up, clean_up after the two
\* set_collation(OFF) and before the set_collation(ON), the database file
\* after all of them and once
RunOrdered ==
    /\ \A i \in At("upload book") : Cardinality({j \in At("download True") : j < i}) = 1
    /\ \A i \in At("update"), j \in At("clean_up") : i < j
    /\ \A i \in At("clean_up") : Cardinality({j \in At("set_collation") : j < i}) = 2
    /\ \A i \in At("upload db") :
            /\ i = Len(run.log)
            /\ Cardinality(At("set_collation")) = 3
            /\ Cardinality(At("clean_up")) = 1
    /\ Cardinality(At("upload db")) <= 1

\* C30 (as claimed): in every run that has passed the connectivity and
\* snapshot checks, with or without a progress channel, the book files are
\* uploaded before the snapshot of the metadata pass is downloaded, every
\* update comes before clean_up, clean_up before the final set_collation(ON),
\* and when the run is over, no file and no request having failed in it, the
\* database file has been uploaded exactly once.
C30_RunOrderAndFinalUpload ==
    PassedChecks =>
        /\ RunOrdered
        /\ RunOverNoTransferError => Cardinality(At("upload db")) = 1

\* supporting C30: the order holds in every run, and a run that comes to its
\* end has uploaded the database file once
C30_OrderOnly ==
    /\ RunOrdered
    /\ run.pc = "done" => Cardinality(At("upload db")) = 1

(***************************************************************************)
(* The collation toggle over a run.  A write is a step of a pass that      *)
(* changes a lookup or a link table of the local database file (the        *)
(* download replaces the file, it does not write to its tables).           *)
(***************************************************************************)
WritesTables ==
    /\ run.pc = "books"
    /\ (kyb'.lookup # kyb.lookup \/ kyb'.link # kyb.link)

UploadsDb == files'.remote = "uploaded" /\ files.remote # "uploaded"

\* C31: every lookup-table and link-table write of the metadata pass happens
\* while collation is OFF, and whenever the database file is uploaded the
\* schema of the collation tables carries the ON clause: the uploaded
\* snapshot never has collation OFF.
C31_CollationPaired ==
    [][/\ WritesTables => (run.pass = "Metadata sync" /\ CollationIs(kyb, OFF)
                           /\ CollationIs(kyb', OFF))
       /\ UploadsDb => (CollationIs(kyb, ON) /\ CollationIs(kyb', ON)
                        /\ DOMAIN kyb.collation = Range(COLLATION_TABLES))]_vars

\* a run that wrote to the tables and then uploaded the file
C31_Witness ==
    /\ files.remote = "uploaded"
    /\ "update" \in Range(run.log)
    /\ \A s \in Snapshots : kyb.lookup # s.lookup

\* the rows of a lookup table that a row of its link table refers to
Referenced(db, tbl) ==
    LET t == Table(tbl)
    IN {r \in db.lookup[tbl] : \E l \in db.link[tbl] : l[t.xid] = r[t.xid]}

\* C32: after clean_up every row of every lookup table is referenced by a row
\* of its link table; clean_up deletes no referenced lookup row, adds or
\* changes none, and leaves books, metadata, reviews and every link table as
\* they were.
C32_CleanUpPostconditionAndFrame ==
    hist.op = "clean_up" =>
        /\ \A tbl \in Range(LOOKUP_TABLES) :
              /\ kyb.lookup[tbl] = Referenced(kyb, tbl)
              /\ Referenced(hist.pre, tbl) \subseteq kyb.lookup[tbl]
              /\ kyb.lookup[tbl] \subseteq hist.pre.lookup[tbl]
        /\ kyb.books = hist.pre.books
        /\ kyb.metadata = hist.pre.metadata
        /\ kyb.reviews = hist.pre.reviews
        /\ kyb.link = hist.pre.link

\* C32 witness: a clean_up that deleted an unreferenced row of a table and
\* kept a referenced row of the same table
C32_Witness ==
    /\ hist.op = "clean_up"
    /\ \E tbl \in Range(LOOKUP_TABLES) :
          /\ kyb.lookup[tbl] # {}
          /\ hist.pre.lookup[tbl] \ kyb.lookup[tbl] # {}

\* every link row refers to a row of books and to a row of its lookup table
Consistent(db) ==
    \A tbl \in Range(LOOKUP_TABLES) : \A l \in db.link[tbl] :
        /\ \E b \in db.books : b.bid = l.bid
        /\ \E r \in db.lookup[tbl] : r[Table(tbl).xid] = l[Table(tbl).xid]

\* C33 (as claimed): the downloaded snapshot being consistent, after every
\* committed write of the metadata pass every link row refers to an existing
\* book row and to an existing row of its lookup table, and the lookup rows
\* that the link rows of the other books refer to are still there, with the
\* id and the value they had.
C33_LinksConsistent ==
    /\ Consistent(kyb)
    /\ hist.op = "update" =>
          \A tbl \in Range(LOOKUP_TABLES) :
              Referenced(del_book_from_link_tables(hist.pre, hist.md5), tbl)
                  \subseteq kyb.lookup[tbl]

\* the snapshots the runs start from are consistent
C33_SnapshotsConsistent == \A s \in Snapshots : Consistent(s)

\* a step of the 'Metadata sync' pass that called kyb_db.update for a file
\* (its hash was appended to cal_book_file_md5s just before)
CallsUpdate ==
    /\ run.pc = "books" /\ run.pass = "Metadata sync"
    /\ Len(run'.md5s) = Len(run.md5s) + 1

\* C34 (as claimed): for the same book content and the same destination
\* snapshot, update leaves the destination in the same state whether the
\* source is queried live (command line, no cal_data) or was handed over
\* pre-materialized (plug-in): in either mode the state after the call is the
\* one the pre-materialized update gives, series sequence number and rating
\* included.
C34_ModeAgnosticMerge ==
    [][CallsUpdate =>
          kyb' = update(kyb, get_metadata(source), get_metadata(source)[run.book],
                        run'.md5s[Len(run'.md5s)], prefs.remove_html, prefs.scan)]_vars

\* the rows of a table of db that belong to other books than bid
OfOthers(rows, bid) == {r \in rows : r.bid # bid}

\* the lookup rows whose value is, letter case apart, no value of the record
HoldsOtherValue(db, tbl, row) ==
    {r \in db.lookup[tbl] :
        \A v \in RecordValues(row, tbl) :
            LowerText(r[Table(tbl).namecol]) # LowerText(v)}

\* C35 (as claimed): update for a matched book b leaves the metadata, link
\* and review rows of every other book as they were, and every lookup row
\* whose value differs, letter case apart, from all the record's values keeps
\* its row id and its value columns.
C35_UpdateFrame ==
    (hist.op = "update" /\ LastBid # NULL) =>
        /\ OfOthers(kyb.metadata, LastBid) = OfOthers(hist.pre.metadata, LastBid)
        /\ OfOthers(kyb.reviews, LastBid) = OfOthers(hist.pre.reviews, LastBid)
        /\ kyb.books = hist.pre.books
        /\ \A tbl \in Range(LOOKUP_TABLES) :
              /\ OfOthers(kyb.link[tbl], LastBid) = OfOthers(hist.pre.link[tbl], LastBid)
              /\ HoldsOtherValue(hist.pre, tbl, LastRow) \subseteq kyb.lookup[tbl]

\* the part of the frame that is about the other books' own rows
C35_OtherBooksRows ==
    (hist.op = "update" /\ LastBid # NULL) =>
        /\ OfOthers(kyb.metadata, LastBid) = OfOthers(hist.pre.metadata, LastBid)
        /\ OfOthers(kyb.reviews, LastBid) = OfOthers(hist.pre.reviews, LastBid)
        /\ kyb.books = hist.pre.books
        /\ \A tbl \in Range(LOOKUP_TABLES) :
              OfOthers(kyb.link[tbl], LastBid) = OfOthers(hist.pre.link[tbl], LastBid)

\* C36 (as claimed): the content server that held a database file before
\* upload_db_file holds one after it, the previous copy or the uploaded one,
\* also when every attempt of the upload failed; and the 'Uploading DB file'
\* 1-of-1 event and the 'close' sentinel are sent only after the upload
\* succeeded.
C36_RemoteDbNeverLost ==
    [][run.pc = "send" =>
          /\ files.remote # "missing" => files'.remote # "missing"
          /\ "close" \in Range(run'.sent) => files'.remote = "uploaded"]_vars

\* an upload that succeeded replaces the remote file and is followed by the
\* two events and the sentinel
C36_UploadOk ==
    [][(run.pc = "send" /\ files'.remote = "uploaded") =>
          /\ run'.pc = "done"
          /\ run'.sent = run.sent \o <<"progress", "progress", "close">>]_vars

\* C37 (as claimed): download_db_file returns True, and the pass goes on to
\* open the local database file, only if the download of that same call wrote
\* the file: the server answered 200 with a non-empty file.  A local copy left
\* by an earlier run or by the previous pass does not make it return True.
C37_NoStaleSnapshot ==
    [][(run.pc = "download" /\ run'.pc = "open") => files.remote \in {"file", "uploaded"}]_vars

\* a download the server answers with its database file returns True
C37_ServedSnapshotUsed ==
    [][(run.pc = "download" /\ files.remote = "file" /\ run'.pc # "crashed") =>
          (run'.pc = "open" /\ run'.ret = "True" /\ files'.local = "file")]_vars

(***************************************************************************)
(* The progress channel of one plug-in job (jobs.py sync_threaded and      *)
(* cal2ky3.main).  The foreground thread starts the worker thread, which   *)
(* runs main, and then creates the listener on localhost:26564, accepts    *)
(* one connection and consumes what the worker sends.  The worker connects *)
(* as a client at the start of main: a connect finds the port refused      *)
(* until the listener is bound, is tried again a bounded number of times   *)
(* and then raises.  chan.sent is what the worker has sent, chan.rcvd how  *)
(* many of these the consumer has received.                                *)
(***************************************************************************)
MaxBooks == 2       \* books handed to main in SpecChannel
MaxRetries == 2     \* refused connects the client tries again in SpecChannel
WaitSeconds == 20   \* total = 20

\* an event that would carry the count of the books done before this one
ProgressEvent_before(pass, count, total) == [pass |-> pass, count |-> count - 1, total |-> total]

\* {'pass': iteration, 'count': count, 'total': total}
ProgressEvent(pass, count, total) == [pass |-> pass, count |-> count, total |-> total]

\* the sentinels 'close' and 'no c_s'
Sentinel(word) == [sentinel |-> word]

\* the worker thread has ended: its end of the connection is closed
WorkerEnded == chan.worker \in {"done", "returned", "exited", "crashed", "refused"}

InitChannel ==
    /\ kyb = SnapEmpty
    /\ prefs = [remove_html |-> FALSE, scan |-> "rowid"]
    /\ hist = NoCall
    /\ up = UpIdle
    /\ source = <<>>
    /\ run = RunIdle
    /\ files = NoFiles
    /\ cp = CpIdle
    /\ img = NoImage
    /\ fn = NoFn
    /\ jobs = NoJobs
    /\ chan \in {[worker |-> "idle", fg |-> "start", listening |-> FALSE,
                  pending |-> FALSE, tries |-> 0, total |-> t, pass |-> "",
                  count |-> 0, sec |-> 0, sent |-> <<>>, rcvd |-> 0] : t \in 1..MaxBooks}

\* "if books:" thread = Thread(target = cal2ky3.main, ...); thread.start()
FgStartThread ==
    /\ chan.fg = "start"
    /\ chan' = [chan EXCEPT !.fg = "listen", !.worker = "connect"]
    /\ UNCHANGED notChan

\* listener = Listener(address, authkey=...): the port is bound and listening
FgListen ==
    /\ chan.fg = "listen"
    /\ chan' = [chan EXCEPT !.fg = "accept", !.listening = TRUE]
    /\ UNCHANGED notChan

\* conn = Client(address, authkey=...) with the listener bound: the connection
\* is made and the client waits for the listener's challenge
WorkerConnect ==
    /\ chan.worker = "connect"
    /\ chan.listening
    /\ chan' = [chan EXCEPT !.worker = "handshake", !.pending = TRUE]
    /\ UNCHANGED notChan

\* Client(...) with no listener bound: connection refused, tried again
WorkerRetry ==
    /\ chan.worker = "connect"
    /\ ~chan.listening
    /\ chan.tries < MaxRetries
    /\ chan' = [chan EXCEPT !.tries = @ + 1]
    /\ UNCHANGED notChan

\* Client(...) raises once its time is up: nothing in main handles it, the
\* worker thread ends
WorkerRefused ==
    /\ chan.worker = "connect"
    /\ ~chan.listening
    /\ chan.tries = MaxRetries
    /\ chan' = [chan EXCEPT !.worker = "refused"]
    /\ UNCHANGED notChan

\* conn = listener.accept(): returns when a connection is pending, after the
\* exchange of challenges with the client
FgAccept ==
    /\ chan.fg = "accept"
    /\ chan.pending
    /\ chan' = [chan EXCEPT !.fg = "poll", !.pending = FALSE, !.worker = "c_s"]
    /\ UNCHANGED notChan

\* c_s = ContentServer(...); on an exception conn.send('no c_s') and return
WorkerContentServer(raises) ==
    /\ chan.worker = "c_s"
    /\ chan' = IF raises
               THEN [chan EXCEPT !.worker = "returned",
                                 !.sent = Append(@, Sentinel("no c_s"))]
               ELSE [chan EXCEPT !.worker = "download", !.pass = "File sync"]
    /\ UNCHANGED notChan

\* the head of iterate_cal_data: "if c_s.download_db_file(...)", total =
\* len(cal_data), else sys.exit(1)
WorkerDownload(ret) ==
    /\ chan.worker = "download"
    /\ chan' = IF ret THEN [chan EXCEPT !.worker = "books", !.count = 0]
               ELSE [chan EXCEPT !.worker = "exited"]
    /\ UNCHANGED notChan

\* one pass of "for cal_datum in cal_data": count = count + 1, the files of
\* the book, then "if conn: conn.send(...)"; an exception of the book's work
\* (get_md5, an upload, update) is handled nowhere
WorkerBook(raises) ==
    /\ chan.worker = "books"
    /\ chan.count < chan.total
    /\ chan' = IF raises THEN [chan EXCEPT !.worker = "crashed", !.count = @ + 1]
               ELSE [chan EXCEPT !.count = @ + 1,
                                 !.sent = Append(@, ProgressEvent(chan.pass, chan.count + 1,
                                                                  chan.total))]
    /\ UNCHANGED notChan

\* after the last book: the 'File sync' pass goes on to wait, the 'Metadata
\* sync' pass to clean_up, then main to set_collation(ON) and the upload
WorkerEndOfBooks ==
    /\ chan.worker = "books"
    /\ chan.count = chan.total
    /\ chan' = IF chan.pass = "File sync" THEN [chan EXCEPT !.worker = "wait", !.sec = 0]
               ELSE [chan EXCEPT !.worker = "upload"]
    /\ UNCHANGED notChan

\* "for sec in range(1, total + 1)": time.sleep(1), conn.send({'pass': 'Waiting', ...})
WorkerWait ==
    /\ chan.worker = "wait"
    /\ chan.sec < WaitSeconds
    /\ chan' = [chan EXCEPT !.sec = @ + 1,
                            !.sent = Append(@, ProgressEvent("Waiting", chan.sec + 1,
                                                             WaitSeconds))]
    /\ UNCHANGED notChan

\* main calls iterate_cal_data again with 'Metadata sync'
WorkerSecondPass ==
    /\ chan.worker = "wait"
    /\ chan.sec = WaitSeconds
    /\ chan' = [chan EXCEPT !.worker = "download", !.pass = "Metadata sync"]
    /\ UNCHANGED notChan

\* conn.send({'pass': 'Uploading DB file', 'count': 0, 'total': 1})
WorkerUploadStart ==
    /\ chan.worker = "upload"
    /\ chan' = [chan EXCEPT !.worker = "uploading",
                            !.sent = Append(@, ProgressEvent("Uploading DB file", 0, 1))]
    /\ UNCHANGED notChan

\* c_s.upload_db_file(KYB_DB_FILE), which may raise in its probe or delete,
\* then conn.send({'pass': 'Uploading DB file', 'count': 1, 'total': 1})
WorkerUploadEnd(raises) ==
    /\ chan.worker = "uploading"
    /\ chan' = IF raises THEN [chan EXCEPT !.worker = "crashed"]
               ELSE [chan EXCEPT !.worker = "close",
                                 !.sent = Append(@, ProgressEvent("Uploading DB file", 1, 1))]
    /\ UNCHANGED notChan

\* "if conn: conn.send('close'); conn.close()"
WorkerClose ==
    /\ chan.worker = "close"
    /\ chan' = [chan EXCEPT !.worker = "done", !.sent = Append(@, Sentinel("close"))]
    /\ UNCHANGED notChan

\* "if conn.poll(): data = conn.recv()": a sentinel ends the consumer, anything
\* else goes to notifications.put((data['count'] / data['total'], ...))
FgRecv ==
    /\ chan.fg = "poll"
    /\ chan.rcvd < Len(chan.sent)
    /\ chan' = [chan EXCEPT !.rcvd = @ + 1,
                            !.fg = IF "sentinel" \in DOMAIN chan.sent[chan.rcvd + 1]
                                   THEN "done" ELSE @]
    /\ UNCHANGED notChan

\* "except EOFError: listener.close()": the worker's end is closed and nothing
\* is left to read; the while loop creates the listener again
FgEOFError ==
    /\ chan.fg = "poll"
    /\ chan.rcvd = Len(chan.sent)
    /\ WorkerEnded
    /\ chan' = [chan EXCEPT !.fg = "listen", !.listening = FALSE]
    /\ UNCHANGED notChan

NextChannel ==
    \/ FgStartThread
    \/ FgListen
    \/ WorkerConnect
    \/ WorkerRetry
    \/ WorkerRefused
    \/ FgAccept
    \/ \E raises \in BOOLEAN : WorkerContentServer(raises)
    \/ \E ret \in BOOLEAN : WorkerDownload(ret)
    \/ \E raises \in BOOLEAN : WorkerBook(raises)
    \/ WorkerEndOfBooks
    \/ WorkerWait
    \/ WorkerSecondPass
    \/ WorkerUploadStart
    \/ \E raises \in BOOLEAN : WorkerUploadEnd(raises)
    \/ WorkerClose
    \/ FgRecv
    \/ FgEOFError

SpecChannel == InitChannel /\ [][NextChannel]_vars

\* C38 (as claimed): in every interleaving of the worker thread and the
\* foreground thread the worker's connect succeeds and the listener's accept
\* returns: the foreground is never left in accept with a worker that has
\* already failed.
C38_ChannelSetUpRaceFree ==
    chan.fg = "accept" => ~WorkerEnded

\* the events of a pass that counts from 1 to total
Counted(pass, total) == [i \in 1..total |-> [pass |-> pass, count |-> i, total |-> total]]

\* the events of a completed run over total books, in the order claimed
CompletedRunEvents(total) ==
    Counted("File sync", total) \o Counted("Waiting", 20) \o Counted("Metadata sync", total)
    \o <<[pass |-> "Uploading DB file", count |-> 0, total |-> 1],
         [pass |-> "Uploading DB file", count |-> 1, total |-> 1],
         [sentinel |-> "close"]>>

\* C39: in a completed run the events are sent in the order File sync (one per
\* book, count 1 to total), Waiting (1 to 20), Metadata sync (1 to total),
\* Uploading DB file (0 of 1, then 1 of 1), then 'close'; and every progress
\* event ever sent has total >= 1 and 0 <= count <= total, so the consumer's
\* count / total is defined and within [0, 1].
C39_ProgressOrderAndBounds ==
    /\ chan.worker = "done" => chan.sent = CompletedRunEvents(chan.total)
    /\ \A i \in DOMAIN chan.sent :
          "pass" \in DOMAIN chan.sent[i] =>
              /\ chan.sent[i].total >= 1
              /\ 0 <= chan.sent[i].count
              /\ chan.sent[i].count <= chan.sent[i].total

\* C39 witness: a completed run over several books whose every event the
\* consumer has received, 'close' last
C39_Witness ==
    /\ chan.worker = "done" /\ chan.fg = "done"
    /\ chan.total > 1
    /\ chan.rcvd = Len(chan.sent)
    /\ Len(chan.sent) = 2 * chan.total + WaitSeconds + 3

============================================================================
